---------------------------- MODULE Spec2Model ----------------------------
(***************************************************************************)
(* A model of the git access layer (src/src/git.ts) and of the code smell  *)
(* mutations and resolvers (src/src/routes/graphql.ts) of olfaction.       *)
(*                                                                         *)
(* Text is modelled as a sequence of one-character strings, so that the    *)
(* regular expressions, splits and joins of the code are computed the way  *)
(* the code computes them.                                                 *)
(***************************************************************************)
EXTENDS Integers, Sequences, FiniteSets, TLC

VARIABLES
    call,   \* the function of git.ts that has been applied ("none" before)
    arg,    \* the argument it was applied to
    ret,    \* what it returned or threw
    analyses,               \* table analyses: the names
    code_smell_lifespans,   \* table code_smell_lifespans: the rows
    analyzed_commits,       \* table analyzed_commits: the rows
    code_smells,            \* table code_smells: the rows
    nextId,                 \* the id the database gives the next code smell
    suppliedOrdinal,        \* for each stored code smell, the ordinal of its input
    response,               \* what the last mutation returned or threw
    spawned,     \* the git commands the call has spawned, in order
    gitProcess,  \* the process of log: "none", "running", "exited", "killed"
    iteration,   \* the consumer's iteration over the commits of log
    initialization  \* the run of init: its position, the directory, its error

fnVars == <<call, arg, ret>>

dbVars == <<analyses, code_smell_lifespans, analyzed_commits, code_smells,
            nextId, suppliedOrdinal, response>>

procVars == <<spawned, gitProcess, iteration, initialization>>

vars == <<call, arg, ret, analyses, code_smell_lifespans, analyzed_commits,
          code_smells, nextId, suppliedOrdinal, response,
          spawned, gitProcess, iteration, initialization>>

(***************************************************************************)
(* Text helpers                                                            *)
(***************************************************************************)
Digits == {"0", "1", "2", "3", "4", "5", "6", "7", "8", "9"}

LowerHex == {"a", "b", "c", "d", "e", "f"}

Lower ==
    {"a", "b", "c", "d", "e", "f", "g", "h", "i", "j", "k", "l", "m",
     "n", "o", "p", "q", "r", "s", "t", "u", "v", "w", "x", "y", "z"}

Upper ==
    {"A", "B", "C", "D", "E", "F", "G", "H", "I", "J", "K", "L", "M",
     "N", "O", "P", "Q", "R", "S", "T", "U", "V", "W", "X", "Y", "Z"}

\* The regular expression class \w.
WordChars == Lower \cup Upper \cup Digits \cup {"_"}

\* n copies of the character c.
Rep(c, n) == [i \in 1..n |-> c]

\* All sequences over S of length at most n.
SeqsUpTo(S, n) == UNION {[1..k -> S] : k \in 0..n}

\* Array.prototype.slice / String.prototype.slice with 0-based from
\* (inclusive) and to (exclusive); a negative index counts from the end.
Slice(s, from, to) ==
    LET n == Len(s)
        f == IF from < 0 THEN (IF n + from < 0 THEN 0 ELSE n + from)
             ELSE (IF from > n THEN n ELSE from)
        t == IF to < 0 THEN (IF n + to < 0 THEN 0 ELSE n + to)
             ELSE (IF to > n THEN n ELSE to)
    IN  IF f >= t THEN <<>> ELSE SubSeq(s, f + 1, t)

\* String.prototype.indexOf for a one-character separator, 0-based, -1 if absent.
IndexOf(s, c) ==
    IF \E i \in 1..Len(s) : s[i] = c
    THEN (CHOOSE i \in 1..Len(s) : s[i] = c /\ \A j \in 1..(i - 1) : s[j] # c) - 1
    ELSE -1

\* String.prototype.lastIndexOf for a one-character separator.
LastIndexOf(s, c) ==
    IF \E i \in 1..Len(s) : s[i] = c
    THEN (CHOOSE i \in 1..Len(s) : s[i] = c /\ \A j \in (i + 1)..Len(s) : s[j] # c) - 1
    ELSE -1

\* String.prototype.split for a one-character separator: always at least
\* one piece, and an empty piece wherever two separators meet.
RECURSIVE Split(_, _)
Split(s, c) ==
    LET i == IndexOf(s, c)
    IN  IF i < 0 THEN <<s>>
        ELSE <<Slice(s, 0, i)>> \o Split(Slice(s, i + 1, Len(s)), c)

\* Array.prototype.join with a one-character separator.
RECURSIVE Join(_, _)
Join(pieces, c) ==
    IF Len(pieces) = 0 THEN <<>>
    ELSE IF Len(pieces) = 1 THEN pieces[1]
    ELSE pieces[1] \o <<c>> \o Join(Tail(pieces), c)

\* String.prototype.endsWith.
EndsWith(s, suffix) ==
    /\ Len(s) >= Len(suffix)
    /\ Slice(s, Len(s) - Len(suffix), Len(s)) = suffix

\* What a call gives back: a returned value or a thrown error.
Return(v) == [threw |-> FALSE, value |-> v, error |-> "none"]

Throw(e) == [threw |-> TRUE, value |-> <<>>, error |-> e]

\* A thrown error that carries the fields it was constructed with.
ThrowWith(e, fields) == [threw |-> TRUE, value |-> fields, error |-> e]

\* F of the value of e, the value being computed once.
Once(e, F(_)) == CHOOSE r \in {F(x) : x \in {e}} : TRUE

Pending == [threw |-> FALSE, value |-> <<>>, error |-> "pending"]

\* No function of git.ts has been applied.
FnIdle == call = "none" /\ arg = <<>> /\ ret = Pending

\* The database as the migrations leave it: every table empty.
DbEmpty ==
    /\ analyses = {}
    /\ code_smell_lifespans = {}
    /\ analyzed_commits = {}
    /\ code_smells = {}
    /\ nextId = 1
    /\ suppliedOrdinal = [id \in {} |-> 0]
    /\ response = [op |-> "none", threw |-> FALSE, error |-> "none"]

\* No process has been spawned and no commits are being iterated.
ProcIdle ==
    /\ spawned = <<>>
    /\ gitProcess = "none"
    /\ iteration = [state |-> "none", yielded |-> 0, error |-> "none",
                    cause |-> [name |-> "none"]]
    /\ initialization = [pc |-> "idle", directory |-> "absent",
                         error |-> "none"]

(***************************************************************************)
(* Validators                                                              *)
(***************************************************************************)
\* The repetition count of the object ID patterns.
OidLen == 40

\* RegExp.test for an unanchored pattern [class]{OidLen}: some window of
\* OidLen consecutive characters lies in the class.
TestRun(s, class) ==
    \E i \in 1..(Len(s) - OidLen + 1) :
        \A j \in i..(i + OidLen - 1) : s[j] \in class

\* /[a-z0-9]{40}/.test(value)
validateObjectID(value) ==
    IF ~TestRun(value, Lower \cup Digits)
    THEN Throw("Not a valid Git object ID")
    ELSE Return(value)

\* path.posix.normalize's scanner (normalizeString), one character per step.
\* i is the 0-based index; st holds res, lastSegmentLength, lastSlash, dots
\* and the character code read last.
RECURSIVE normalizeString(_, _, _, _)
normalizeString(path, allowAboveRoot, i, st) ==
    IF i > Len(path) THEN st.res
    ELSE IF i = Len(path) /\ st.code = "/" THEN st.res
    ELSE
      LET code == IF i < Len(path) THEN path[i + 1] ELSE "/"
          res == st.res
          n == Len(res)
          segment == Slice(path, st.lastSlash + 1, i)
          next ==
            IF code = "/" THEN
              IF st.lastSlash = i - 1 \/ st.dots = 1 THEN
                [st EXCEPT !.lastSlash = i, !.dots = 0, !.code = code]
              ELSE IF st.dots = 2 THEN
                IF (n < 2 \/ st.lastSegmentLength # 2
                      \/ res[n] # "." \/ res[n - 1] # ".") /\ n > 2 THEN
                  LET lastSlashIndex == LastIndexOf(res, "/")
                      cut == IF lastSlashIndex = -1 THEN <<>>
                             ELSE Slice(res, 0, lastSlashIndex)
                  IN  [res |-> cut,
                       lastSegmentLength |->
                           IF lastSlashIndex = -1 THEN 0
                           ELSE Len(cut) - 1 - LastIndexOf(cut, "/"),
                       lastSlash |-> i, dots |-> 0, code |-> code]
                ELSE IF (n < 2 \/ st.lastSegmentLength # 2
                      \/ res[n] # "." \/ res[n - 1] # ".") /\ n # 0 THEN
                  [res |-> <<>>, lastSegmentLength |-> 0,
                   lastSlash |-> i, dots |-> 0, code |-> code]
                ELSE IF allowAboveRoot THEN
                  [res |-> IF n > 0 THEN res \o <<"/", ".", ".">> ELSE <<".", ".">>,
                   lastSegmentLength |-> 2,
                   lastSlash |-> i, dots |-> 0, code |-> code]
                ELSE
                  [st EXCEPT !.lastSlash = i, !.dots = 0, !.code = code]
              ELSE
                [res |-> IF n > 0 THEN res \o <<"/">> \o segment ELSE segment,
                 lastSegmentLength |-> i - st.lastSlash - 1,
                 lastSlash |-> i, dots |-> 0, code |-> code]
            ELSE IF code = "." /\ st.dots # -1 THEN
              [st EXCEPT !.dots = st.dots + 1, !.code = code]
            ELSE
              [st EXCEPT !.dots = -1, !.code = code]
      IN  normalizeString(path, allowAboveRoot, i + 1, next)

\* path.posix.isAbsolute
isAbsolute(path) == Len(path) > 0 /\ path[1] = "/"

\* path.posix.normalize
normalize(path) ==
    IF Len(path) = 0 THEN <<".">>
    ELSE
      LET absolute == path[1] = "/"
          trailingSeparator == path[Len(path)] = "/"
          start == [res |-> <<>>, lastSegmentLength |-> 0, lastSlash |-> -1,
                    dots |-> 0, code |-> "none"]
          res == normalizeString(path, ~absolute, 0, start)
      IN  IF Len(res) = 0
          THEN (IF absolute THEN <<"/">>
                ELSE IF trailingSeparator THEN <<".", "/">> ELSE <<".">>)
          ELSE (IF absolute THEN <<"/">> ELSE <<>>) \o res
                 \o (IF trailingSeparator THEN <<"/">> ELSE <<>>)

\* /(^|\/)\.\.(\/|$)/.test(value)
TestRelativeReference(value) ==
    \E i \in 1..(Len(value) - 1) :
        /\ value[i] = "." /\ value[i + 1] = "."
        /\ (i = 1 \/ value[i - 1] = "/")
        /\ (i + 1 = Len(value) \/ value[i + 2] = "/")

validateRelativeRepoPath_NoAbsoluteCheck(value) ==
    LET normalized == normalize(value)
    IN  IF TestRelativeReference(normalized)
        THEN Throw("Path contains relative references")
        ELSE Return(normalized)

validateRelativeRepoPath_TestsRawValue(value) ==
    IF isAbsolute(value) THEN Throw("Path is absolute")
    ELSE IF TestRelativeReference(value)
    THEN Throw("Path contains relative references")
    ELSE Return(normalize(value))

validateRelativeRepoPath(value) ==
    LET normalized == normalize(value)
    IN  IF isAbsolute(normalized) THEN Throw("Path is absolute")
        ELSE IF TestRelativeReference(normalized)
        THEN Throw("Path contains relative references")
        ELSE Return(normalized)

\* The suffix resolveRepoDir appends to a repository name.
DotGit == <<".", "g", "i", "t">>

\* /^[\w-_.]+$/.test(repository)
TestRepositoryName(repository) ==
    /\ Len(repository) > 0
    /\ \A i \in 1..Len(repository) : repository[i] \in WordChars \cup {"-", "_", "."}

validateRepositoryName_NoSuffixCheck(repository) ==
    IF ~TestRepositoryName(repository) THEN Throw("Invalid repository name")
    ELSE Return(repository)

validateRepositoryName(repository) ==
    IF ~TestRepositoryName(repository) THEN Throw("Invalid repository name")
    ELSE IF EndsWith(repository, DotGit)
    THEN Throw("Repository names cannot end with .git")
    ELSE Return(repository)

(***************************************************************************)
(* The validators applied to bounded sets of strings                       *)
(***************************************************************************)
\* Longest padding put before and after a run of OidLen-1..OidLen+1 characters.
MaxPad == 1

\* Most segments of a path.
MaxSegments == 4

\* Most tokens of a repository name.
MaxNameTokens == 3

ObjectIDInputs ==
    { Rep(p, np) \o Rep(c, n) \o Rep(q, nq) :
        p \in {"a", "g", "-"}, np \in 0..MaxPad,
        c \in {"a", "f", "0", "9", "g", "z", "A"},
        n \in (OidLen - 1)..(OidLen + 1),
        q \in {"a", "g", "-"}, nq \in 0..MaxPad }

PathSegments ==
    { <<>>, <<".">>, <<".", ".">>, <<"a">>, <<"b">>, <<"c">>,
      <<"e", "t", "c">>, <<"p", "a", "s", "s", "w", "d">> }

PathInputs == { Join(segs, "/") : segs \in SeqsUpTo(PathSegments, MaxSegments) }

NameTokens ==
    { <<"a">>, <<"Z">>, <<"9">>, <<"_">>, <<"-">>, <<".">>, DotGit,
      <<"/">>, <<" ">>, <<"\n">> }

RECURSIVE Concat(_)
Concat(pieces) ==
    IF Len(pieces) = 0 THEN <<>> ELSE pieces[1] \o Concat(Tail(pieces))

NameInputs == { Concat(tokens) : tokens \in SeqsUpTo(NameTokens, MaxNameTokens) }

ValidatorInputs == ObjectIDInputs \cup PathInputs \cup NameInputs

InitValidators ==
    /\ call = "none"
    /\ arg \in ValidatorInputs
    /\ ret = Pending
    /\ DbEmpty
    /\ ProcIdle

ValidateObjectID ==
    /\ call = "none"
    /\ call' = "validateObjectID"
    /\ ret' = validateObjectID(arg)
    /\ UNCHANGED arg
    /\ UNCHANGED dbVars
    /\ UNCHANGED procVars

ValidateRelativeRepoPath ==
    /\ call = "none"
    /\ call' = "validateRelativeRepoPath"
    /\ ret' = validateRelativeRepoPath(arg)
    /\ UNCHANGED arg
    /\ UNCHANGED dbVars
    /\ UNCHANGED procVars

\* The caller validates a path it got back from the validator once more.
RevalidateRelativeRepoPath ==
    /\ call = "validateRelativeRepoPath"
    /\ ~ret.threw
    /\ call' = "revalidateRelativeRepoPath"
    /\ arg' = ret.value
    /\ ret' = validateRelativeRepoPath(ret.value)
    /\ UNCHANGED dbVars
    /\ UNCHANGED procVars

ValidateRepositoryName ==
    /\ call = "none"
    /\ call' = "validateRepositoryName"
    /\ ret' = validateRepositoryName(arg)
    /\ UNCHANGED arg
    /\ UNCHANGED dbVars
    /\ UNCHANGED procVars

NextValidators ==
    \/ ValidateObjectID
    \/ ValidateRelativeRepoPath
    \/ RevalidateRelativeRepoPath
    \/ ValidateRepositoryName

SpecValidators == InitValidators /\ [][NextValidators]_vars

(***************************************************************************)
(* Claims about the validators                                             *)
(***************************************************************************)
\* Exactly OidLen characters, each of 0-9 or a-f.
IsObjectID(s) ==
    /\ Len(s) = OidLen
    /\ \A i \in 1..Len(s) : s[i] \in Digits \cup LowerHex

\* C1: validateObjectID(s) returns s if and only if s is exactly 40
\* characters long and every character is in 0-9 or a-f; every other string
\* is rejected with an error.
C1_AcceptsIffObjectID ==
    call = "validateObjectID" =>
        /\ ~ret.threw <=> IsObjectID(arg)
        /\ ~ret.threw => ret.value = arg

\* Some segment of the path is "..".
HasParentSegment(p) ==
    \E i \in 1..Len(Split(p, "/")) : Split(p, "/")[i] = <<".", ".">>

\* Walking the segments from the root, some ".." is met at depth 0.
RECURSIVE ClimbsAboveRoot(_, _)
ClimbsAboveRoot(segs, depth) ==
    IF Len(segs) = 0 THEN FALSE
    ELSE IF segs[1] = <<".", ".">>
    THEN depth = 0 \/ ClimbsAboveRoot(Tail(segs), depth - 1)
    ELSE IF segs[1] = <<>> \/ segs[1] = <<".">>
    THEN ClimbsAboveRoot(Tail(segs), depth)
    ELSE ClimbsAboveRoot(Tail(segs), depth + 1)

EscapesRoot(p) == isAbsolute(p) \/ ClimbsAboveRoot(Split(p, "/"), 0)

PathValidated == call \in {"validateRelativeRepoPath", "revalidateRelativeRepoPath"}

\* C2: validateRelativeRepoPath rejects every path whose normalized form is
\* absolute or still contains a ".." segment, that is every path that is
\* absolute or climbs above the root; a returned path is never absolute and
\* never holds a ".." segment.
C2_TraversalRejected ==
    PathValidated =>
        /\ (isAbsolute(normalize(arg)) \/ HasParentSegment(normalize(arg))) => ret.threw
        /\ EscapesRoot(arg) => ret.threw
        /\ ~ret.threw => ~isAbsolute(ret.value) /\ ~HasParentSegment(ret.value)

\* "a/../../b" was validated and rejected.
C2_Witness ==
    /\ call = "validateRelativeRepoPath"
    /\ arg = <<"a", "/", ".", ".", "/", ".", ".", "/", "b">>
    /\ ret.threw

\* The named segments left after every "." is dropped and every ".." has
\* removed the segment before it.
RECURSIVE ResolveSegments(_, _)
ResolveSegments(segs, stack) ==
    IF Len(segs) = 0 THEN stack
    ELSE IF segs[1] = <<".", ".">>
    THEN ResolveSegments(Tail(segs), Slice(stack, 0, Len(stack) - 1))
    ELSE IF segs[1] = <<>> \/ segs[1] = <<".">>
    THEN ResolveSegments(Tail(segs), stack)
    ELSE ResolveSegments(Tail(segs), Append(stack, segs[1]))

NamedSegments(p) == ResolveSegments(Split(p, "/"), <<>>)

\* C3: validateRelativeRepoPath accepts every relative path whose ".."
\* segments all stay within the root and returns its normalized form; the
\* returned path holds no ".." segment, and validating a returned path again
\* returns it unchanged.
C3_InteriorParentAccepted ==
    /\ (call = "validateRelativeRepoPath" /\ ~EscapesRoot(arg)) =>
          /\ ~ret.threw
          /\ ~HasParentSegment(ret.value)
          /\ \A i \in 1..Len(Split(ret.value, "/")) :
                Split(ret.value, "/")[i] # <<>> \/ i = Len(Split(ret.value, "/"))
          /\ NamedSegments(ret.value) = NamedSegments(arg)
    /\ call = "revalidateRelativeRepoPath" => ret = Return(arg)

\* "a/b/../c" was validated and came back as "a/c".
C3_Witness ==
    /\ call = "validateRelativeRepoPath"
    /\ arg = <<"a", "/", "b", "/", ".", ".", "/", "c">>
    /\ ret = Return(<<"a", "/", "c">>)

\* Non-empty, made only of A-Z, a-z, 0-9, ".", "_" and "-".
IsNameText(s) ==
    /\ s # <<>>
    /\ \A i \in 1..Len(s) : s[i] \in Upper \cup Lower \cup Digits \cup {".", "_", "-"}

\* C4: validateRepositoryName(s) fails unless s is a non-empty string of
\* A-Z, a-z, 0-9, ".", "_", "-" that does not end with ".git"; when it
\* succeeds it returns s unchanged.
C4_RepositoryNameChecked ==
    call = "validateRepositoryName" =>
        /\ ~(IsNameText(arg) /\ ~EndsWith(arg, DotGit)) => ret.threw
        /\ ~ret.threw => ret.value = arg

\* The well-formed name "a.git" was rejected for its reserved suffix.
C4_Witness ==
    /\ call = "validateRepositoryName"
    /\ arg = <<"a", ".", "g", "i", "t">>
    /\ ret = Throw("Repository names cannot end with .git")

(***************************************************************************)
(* Commit record parser                                                    *)
(***************************************************************************)
\* The NUL byte that -z puts between commits.
NUL == "NUL"

\* What a destructured variable holds when the array is too short.
Undefined == <<"undefined">>

\* The i-th element (1-based) of a destructured array.
At(lines, i) == IF i <= Len(lines) THEN lines[i] ELSE Undefined

\* commitFormat: the fields git prints for one commit, joined by %n.
FormatCommit(c) ==
    Join(<<c.oid, Join(c.parents, " "),
           c.author.name, c.author.email, c.author.date,
           c.committer.name, c.committer.email, c.committer.date,
           c.message>>, "\n")

\* The output of -z for a list of commits: the formatted commits with a NUL
\* between them and, when git terminates rather than separates, one after
\* the last.
FormatCommits(commits, terminated) ==
    Join([i \in 1..Len(commits) |-> FormatCommit(commits[i])], NUL)
        \o (IF terminated /\ Len(commits) > 0 THEN <<NUL>> ELSE <<>>)

parseCommit_ParentsAlwaysSplit(chunk) ==
    LET lines == Split(chunk, "\n")
        parentHashes == At(lines, 2)
    IN  IF parentHashes = Undefined THEN Throw("TypeError")
        ELSE Return([oid |-> At(lines, 1),
                     parents |-> Split(parentHashes, " "),
                     author |-> [name |-> At(lines, 3), email |-> At(lines, 4),
                                 date |-> At(lines, 5)],
                     committer |-> [name |-> At(lines, 6), email |-> At(lines, 7),
                                    date |-> At(lines, 8)],
                     message |-> Join(Slice(lines, 8, Len(lines)), "\n")])

\* parseCommit: split the chunk into lines, take the first eight as fields
\* and the rest as the message. A chunk of one line leaves parentHashes
\* undefined, and reading its split throws.
parseCommit(chunk) ==
    LET lines == Split(chunk, "\n")
        parentHashes == At(lines, 2)
    IN  IF parentHashes = Undefined THEN Throw("TypeError")
        ELSE Return([oid |-> At(lines, 1),
                     parents |-> IF parentHashes = <<>> THEN <<>>
                                 ELSE Split(parentHashes, " "),
                     author |-> [name |-> At(lines, 3), email |-> At(lines, 4),
                                 date |-> At(lines, 5)],
                     committer |-> [name |-> At(lines, 6), email |-> At(lines, 7),
                                    date |-> At(lines, 8)],
                     message |-> Join(Slice(lines, 8, Len(lines)), "\n")])

\* chunks.map(parseCommit): the parsed commits, or the first error thrown.
MapParseCommit(chunks) ==
    LET parsed == [i \in 1..Len(chunks) |-> parseCommit(chunks[i])]
    IN  IF \E i \in 1..Len(parsed) : parsed[i].threw
        THEN parsed[CHOOSE i \in 1..Len(parsed) :
                      parsed[i].threw /\ \A j \in 1..(i - 1) : ~parsed[j].threw]
        ELSE Return([i \in 1..Len(parsed) |-> parsed[i].value])

\* getCommits on the output of git show: split on NUL, drop the empty
\* chunks, parse each of the others.
parseCommits(stdout) ==
    MapParseCommit(SelectSeq(Split(stdout, NUL), LAMBDA chunk : chunk # <<>>))

\* Most commits of one output.
MaxCommits == 2

CommitOids == {<<"c", "1">>, <<"c", "2">>}

AuthorSignature ==
    [name |-> <<"J", " ", "D">>, email |-> <<"j", "@", "x">>, date |-> <<"d", "1">>]

CommitterSignature ==
    [name |-> <<>>, email |-> <<"k", "@", "x">>, date |-> <<"d", "2">>]

CommitMessages ==
    { <<>>, <<"m">>, <<"m", "\n", "\n", "n">>, <<"m", "\n">> }

CommitRecords ==
    [oid : CommitOids,
     parents : {<<>>, <<<<"p", "1">>>>, <<<<"p", "1">>, <<"p", "2">>>>},
     author : {AuthorSignature},
     committer : {CommitterSignature},
     message : CommitMessages]

InitCommits ==
    /\ call = "none"
    /\ arg \in [commits : SeqsUpTo(CommitRecords, MaxCommits), terminated : BOOLEAN]
    /\ ret = Pending
    /\ DbEmpty
    /\ ProcIdle

\* git prints the commits and getCommits parses what it printed.
ParseCommits ==
    /\ call = "none"
    /\ call' = "parseCommits"
    /\ ret' = parseCommits(FormatCommits(arg.commits, arg.terminated))
    /\ UNCHANGED arg
    /\ UNCHANGED dbVars
    /\ UNCHANGED procVars

NextCommits == ParseCommits

SpecCommits == InitCommits /\ [][NextCommits]_vars

Null == <<"null">>

\* ChangeKind.Added and ChangeKind.Deleted.
Added == "A"

Deleted == "D"

ChangeKindLetters == {"A", "C", "D", "M", "R", "T"}

\* array[index] = value for a 0-based index: an index past the end grows
\* the array, and the elements skipped read as undefined.
SetAt(array, index, value) ==
    IF index < Len(array) THEN [array EXCEPT ![index + 1] = value]
    ELSE array \o [i \in 1..(index - Len(array)) |-> Undefined] \o <<value>>

\* As ApplyChangeKinds, but Deleted counts for the first parent only.
RECURSIVE ApplyChangeKinds_DeletedFirstParentOnly(_, _, _)
ApplyChangeKinds_DeletedFirstParentOnly(changeKinds, baseIndex, diff) ==
    IF baseIndex >= Len(changeKinds) THEN diff
    ELSE
      LET changeKind == changeKinds[baseIndex + 1]
          next ==
            IF changeKind = Added
            THEN [diff EXCEPT !.basePaths = SetAt(diff.basePaths, baseIndex, Null)]
            ELSE IF changeKind = Deleted /\ baseIndex = 0
            THEN [diff EXCEPT !.headPath = Null]
            ELSE diff
      IN  ApplyChangeKinds_DeletedFirstParentOnly(changeKinds, baseIndex + 1, next)

\* The loop over changeKinds.entries(), from the 0-based baseIndex on:
\* Added nulls the base path of that index, Deleted nulls the head path.
RECURSIVE ApplyChangeKinds(_, _, _)
ApplyChangeKinds(changeKinds, baseIndex, diff) ==
    IF baseIndex >= Len(changeKinds) THEN diff
    ELSE
      LET changeKind == changeKinds[baseIndex + 1]
          next ==
            IF changeKind = Added
            THEN [diff EXCEPT !.basePaths = SetAt(diff.basePaths, baseIndex, Null)]
            ELSE IF changeKind = Deleted
            THEN [diff EXCEPT !.headPath = Null]
            ELSE diff
      IN  ApplyChangeKinds(changeKinds, baseIndex + 1, next)

\* One file line: the kinds with the similarity digits removed, the head
\* path, and the base paths, which are the head path alone when the line
\* gives none.
parseFileLine(fileLine) ==
    LET fields == Split(fileLine, "\t")
        gitChangeKinds == fields[1]
        gitHeadPath == At(fields, 2)
        gitBasePaths == Slice(fields, 2, Len(fields))
        changeKinds == SelectSeq(gitChangeKinds, LAMBDA ch : ch \notin Digits)
        basePaths == IF Len(gitBasePaths) > 0 THEN gitBasePaths ELSE <<gitHeadPath>>
    IN  ApplyChangeKinds(changeKinds, 0,
            [changeKinds |-> changeKinds, headPath |-> gitHeadPath,
             basePaths |-> basePaths])

\* One commit chunk: the oid line, then the file lines that are not empty.
parseCommitChunk(commitChunk) ==
    LET lines == Split(commitChunk, "\n")
        fileLines == SelectSeq(Tail(lines), LAMBDA fileLine : fileLine # <<>>)
    IN  [oid |-> lines[1],
         changes |-> [i \in 1..Len(fileLines) |-> parseFileLine(fileLines[i])]]

\* getCombinedCommitDifference on the output of git show: split on NUL,
\* drop the empty chunks, parse each of the others.
parseCombinedDifference(stdout) ==
    LET chunks == SelectSeq(Split(stdout, NUL), LAMBDA line : line # <<>>)
    IN  [i \in 1..Len(chunks) |-> parseCommitChunk(chunks[i])]

\* commitChangesFormat with --name-status: for each commit a NUL and the
\* oid, an empty line, and one line per changed file.
FormatChanges(oid, fileLines) ==
    <<NUL>> \o oid \o <<"\n", "\n">>
        \o Concat([i \in 1..Len(fileLines) |-> fileLines[i] \o <<"\n">>])

\* Most parents of a commit, that is most letters of a file line.
MaxParents == 2

DiffPaths == {<<"f">>, <<"g">>}

SimilarityScores == {<<>>, <<"1", "0", "0">>}

\* The file lines: k letters, a similarity score or none, the head path and
\* either no base path or one for each of the k parents.
FileLines ==
    { Join(<<kinds \o score, head>> \o bases, "\t") :
        <<kinds, bases>> \in
            UNION { [1..k -> ChangeKindLetters] \X ({<<>>} \cup [1..k -> DiffPaths]) :
                    k \in 1..MaxParents },
        score \in SimilarityScores,
        head \in DiffPaths }

InitDiff ==
    /\ call = "none"
    /\ arg \in [oid : {<<"c", "1">>}, fileLine : FileLines]
    /\ ret = Pending
    /\ DbEmpty
    /\ ProcIdle

\* git prints the change of one file of a commit and
\* getCombinedCommitDifference parses what it printed.
ParseCombinedDifference ==
    /\ call = "none"
    /\ call' = "parseCombinedDifference"
    /\ ret' = Return(parseCombinedDifference(FormatChanges(arg.oid, <<arg.fileLine>>)))
    /\ UNCHANGED arg
    /\ UNCHANGED dbVars
    /\ UNCHANGED procVars

NextDiff == ParseCombinedDifference

SpecDiff == InitDiff /\ [][NextDiff]_vars

\* The number of change-kind letters of a file line.
KindCount(fileLine) ==
    Len(SelectSeq(Split(fileLine, "\t")[1], LAMBDA ch : ch \in ChangeKindLetters))

\* The file line carries no explicit base path.
NoBasePaths(fileLine) == Len(Split(fileLine, "\t")) = 2

\* The differences parsed from the output.
ParsedChanges == IF Len(ret.value) = 1 THEN ret.value[1].changes ELSE <<>>

C7_NullRules ==
    call = "parseCombinedDifference" =>
        /\ Len(ParsedChanges) = 1
        /\ Len(ParsedChanges[1].changeKinds) = KindCount(arg.fileLine)
        /\ \A i \in 1..Len(ParsedChanges[1].changeKinds) :
              /\ ParsedChanges[1].changeKinds[i] = Added =>
                    /\ i <= Len(ParsedChanges[1].basePaths)
                    /\ ParsedChanges[1].basePaths[i] = Null
              /\ ParsedChanges[1].changeKinds[i] = Deleted =>
                    ParsedChanges[1].headPath = Null

\* "MD" with explicit base paths f and g: Deleted for the second parent,
\* Modified for the first, and the head path is null.
C7_Witness ==
    /\ call = "parseCombinedDifference"
    /\ arg.fileLine = <<"M", "D", "\t", "f", "\t", "f", "\t", "g">>
    /\ ParsedChanges[1].changeKinds = <<"M", "D">>
    /\ ParsedChanges[1].headPath = Null
    /\ ParsedChanges[1].basePaths = <<<<"f">>, <<"g">>>>

(***************************************************************************)
(* Batch content reader                                                    *)
(***************************************************************************)
\* A blob that the commit does not hold.
Missing == <<"missing">>

\* The marker prefix of --format=>>>%(rest).
MarkerPrefix == <<">", ">", ">">>

\* `${f.commit}:${f.file}`
FileString(f) == f.commit \o <<":">> \o f.file

\* What `${x}` gives for an array element past the end.
UndefinedText == <<"u", "n", "d", "e", "f", "i", "n", "e", "d">>

\* execa's stripFinalNewline: one newline at the end of stdout is removed.
StripFinalNewline(text) ==
    IF Len(text) > 0 /\ text[Len(text)] = "\n" THEN Slice(text, 0, Len(text) - 1)
    ELSE text

\* git cat-file --batch --format=>>>%(rest) for one input line "<name> <rest>":
\* for an object it holds, the expanded format, a newline, the content and a
\* newline; for one it does not hold, "<name> missing" and a newline.
CatFileEntry(inputLine, store) ==
    LET space == IndexOf(inputLine, " ")
        name == Slice(inputLine, 0, space)
        rest == Slice(inputLine, space + 1, Len(inputLine))
    IN  IF store[name] = Missing
        THEN name \o <<" ", "m", "i", "s", "s", "i", "n", "g", "\n">>
        ELSE MarkerPrefix \o rest \o <<"\n">> \o store[name] \o <<"\n">>

CatFileBatch(input, store) ==
    IF input = <<>> THEN <<>>
    ELSE LET inputLines == Split(input, "\n")
         IN  Concat([i \in 1..Len(inputLines) |-> CatFileEntry(inputLines[i], store)])

\* The loop over lines.entries(), from the 0-based lineNo on. st holds
\* fileStringIndex, start and contents.
RECURSIVE ScanLines(_, _, _, _)
ScanLines(lines, fileStrings, lineNo, st) ==
    IF lineNo >= Len(lines) THEN st.contents
    ELSE
      LET line == lines[lineNo + 1]
          expected == IF st.fileStringIndex < Len(fileStrings)
                      THEN fileStrings[st.fileStringIndex + 1]
                      ELSE UndefinedText
          next ==
            IF line = MarkerPrefix \o expected THEN
              [contents |-> Append(st.contents,
                                   Join(Slice(lines, st.start, lineNo - 1), "\n")),
               start |-> lineNo + 1,
               fileStringIndex |-> st.fileStringIndex + 1]
            ELSE IF line = MarkerPrefix \o expected
                              \o <<" ", "m", "i", "s", "s", "i", "n", "g">> THEN
              [contents |-> Append(st.contents, Null),
               start |-> lineNo + 1,
               fileStringIndex |-> st.fileStringIndex + 1]
            ELSE st
      IN  ScanLines(lines, fileStrings, lineNo + 1, next)

\* getFileContents: one "<spec> <spec>" line per file on the input of git
\* cat-file, then the scan of its output for the markers. A repository
\* directory that does not exist makes the spawn fail with ENOENT.
getFileContents(files, store, repositoryExists) ==
    LET fileStrings == [i \in 1..Len(files) |-> FileString(files[i])]
        input == Join([i \in 1..Len(files) |->
                          fileStrings[i] \o <<" ">> \o fileStrings[i]], "\n")
        stdout == StripFinalNewline(CatFileBatch(input, store))
        lines == Split(stdout, "\n")
    IN  IF ~repositoryExists THEN Throw("UnknownRepositoryError")
        ELSE Return(ScanLines(lines, fileStrings, 0,
                 [contents |-> <<>>, start |-> 0, fileStringIndex |-> 0]))

\* Most files of one batch.
MaxFiles == 2

FileSpecs ==
    { [commit |-> <<"c", "1">>, file |-> <<"f", "1">>],
      [commit |-> <<"c", "2">>, file |-> <<"f", "2">>] }

\* The contents of a blob; the last holds the marker line of a request as
\* its second line.
BlobContents ==
    { <<"a">>, <<"a", "\n", "b">>, <<"a", "\n">>,
      <<"a", "\n">> \o MarkerPrefix \o <<"c", "2", ":", "f", "2">> }

\* The blob store of the repository: for every "<commit>:<file>" its content
\* or Missing.
BlobStores == [{FileString(f) : f \in FileSpecs} -> BlobContents \cup {Missing}]

InitContents ==
    /\ call = "none"
    /\ arg \in [files : SeqsUpTo(FileSpecs, MaxFiles), store : BlobStores,
                repositoryExists : BOOLEAN]
    /\ ret = Pending
    /\ DbEmpty
    /\ ProcIdle

GetFileContents ==
    /\ call = "none"
    /\ call' = "getFileContents"
    /\ ret' = getFileContents(arg.files, arg.store, arg.repositoryExists)
    /\ UNCHANGED arg
    /\ UNCHANGED dbVars
    /\ UNCHANGED procVars

NextContents == GetFileContents

SpecContents == InitContents /\ [][NextContents]_vars

\* The content of the i-th requested file, or null when it is absent.
ExpectedContent(i) ==
    IF arg.store[FileString(arg.files[i])] = Missing THEN Null
    ELSE arg.store[FileString(arg.files[i])]

\* C8: for a list of n (commit, path) specs the batch content reader returns
\* exactly n entries, entry i being the full content of spec i or null when
\* spec i is absent.
C8_ContentsInRequestOrder ==
    (call = "getFileContents" /\ arg.repositoryExists) =>
        /\ ~ret.threw
        /\ Len(ret.value) = Len(arg.files)
        /\ \A i \in 1..Len(arg.files) : ret.value[i] = ExpectedContent(i)

(***************************************************************************)
(* The repositories under repoRoot                                         *)
(***************************************************************************)
\* The repository whose directory exists, and a name with no directory.
RepoName == <<"r">>

AbsentRepoName == <<"x">>

Repositories == {RepoName}

\* An object ID: OidLen times one hexadecimal digit.
Commit(digit) == Rep(digit, OidLen)

\* The commits of the repository, every commit after its ancestors.
History == <<Commit("1"), Commit("2")>>

\* A well-formed object ID that the repository does not hold.
UnknownCommit == Commit("9")

\* The position of a commit in the ancestor-before-descendant order, from 0.
AncestryRank(commit) == (CHOOSE i \in 1..Len(History) : History[i] = commit) - 1

(***************************************************************************)
(* External processes                                                      *)
(***************************************************************************)
\* resolveRepoDir below repoRoot: path.join normalizes what it joins.
resolveRepoDir(repository) == normalize(repository \o DotGit)

\* The directories that init has made beside those of Repositories.
Made == IF initialization.directory = "absent" THEN {} ELSE {arg.repository}

\* The directory that a spawned git is to run in exists.
DirectoryExists(repository) ==
    \E r \in Repositories \cup Made :
        resolveRepoDir(repository) = resolveRepoDir(r)

\* How a spawned process ends: it exits with status 0, it is killed by a
\* cancellation, or it exits with another status and a message on stderr.
OkFate == [killed |-> FALSE, exitCode |-> 0, stderr |-> <<>>]

KilledFate == [killed |-> TRUE, exitCode |-> 0, stderr |-> <<>>]

FailedFate(exitCode, stderr) ==
    [killed |-> FALSE, exitCode |-> exitCode, stderr |-> stderr]

\* The error execa rejects with.
ExecaError(killed, code, exitCode, stderr) ==
    ThrowWith("ExecaError", [killed |-> killed, code |-> code,
                             exitCode |-> exitCode, stderr |-> stderr])

\* await exec('git', ..., { cwd: resolveRepoDir(...) }): a directory that
\* does not exist fails the spawn with ENOENT; otherwise the process runs to
\* its fate. Left to itself git ends as its arguments make it end, with its
\* output or with an error of its own (ended); a fate other than that
\* rejects with what the fate says.
Exec(repository, fate, ended) ==
    IF ~DirectoryExists(repository) THEN ExecaError(FALSE, "ENOENT", 0, <<>>)
    ELSE IF fate = OkFate THEN ended
    ELSE ExecaError(fate.killed, "none", fate.exitCode, fate.stderr)

\* One entry of spawned: the git command and what was written to its stdin.
Spawn(command, input) == [command |-> command, input |-> input]

\* A call's result together with the processes it spawned.
Ran(result, processes) == [result |-> result, spawned |-> processes]

\* What a revision on the input of git rev-list names: a commit of the
\* repository by its object ID, or its parent by the object ID and "^".
Resolve(revision) ==
    IF \E i \in 1..Len(History) : History[i] = revision
    THEN <<revision>>
    ELSE IF \E i \in 2..Len(History) : History[i] \o <<"^">> = revision
    THEN <<History[(CHOOSE i \in 2..Len(History) :
                        History[i] \o <<"^">> = revision) - 1]>>
    ELSE <<>>

\* The lines git rev-list reads from its stdin: up to the first empty line.
ReadRevisions(stdin) ==
    Once(Split(stdin, "\n"), LAMBDA pieces :
        Once(IF pieces[Len(pieces)] = <<>>
             THEN SubSeq(pieces, 1, Len(pieces) - 1) ELSE pieces, LAMBDA lines :
            LET stop == IF \E i \in 1..Len(lines) : lines[i] = <<>>
                        THEN CHOOSE i \in 1..Len(lines) :
                                /\ lines[i] = <<>>
                                /\ \A j \in 1..(i - 1) : lines[j] # <<>>
                        ELSE Len(lines) + 1
            IN  SubSeq(lines, 1, stop - 1)))

\* git rev-list --ignore-missing --no-walk --stdin: of the revisions on its
\* input, the commits of the repository they name, newest first, one per
\* line; a revision that names nothing is ignored.
RevListNoWalk(stdin) ==
    Once(ReadRevisions(stdin), LAMBDA revisions :
        Once(SelectSeq([i \in 1..Len(History) |-> History[Len(History) + 1 - i]],
                       LAMBDA c : \E j \in 1..Len(revisions) :
                                      Resolve(revisions[j]) = <<c>>), LAMBDA held :
            Concat([i \in 1..Len(held) |-> held[i] \o <<"\n">>])))

\* The candidates that filterValidCommits writes to the stdin of rev-list.
FilterByPattern(commitOids) ==
    SelectSeq(commitOids, LAMBDA c : TestRun(c, LowerHex \cup Digits))

\* filterValidCommits: the candidates that match /[a-f0-9]{40}/ go to git
\* rev-list, a line each; the lines it prints that are not empty are the
\* valid commits. A killed process throws AbortError and a failed spawn
\* UnknownRepositoryError.
filterValidCommitsRun(repository, commitOids, fate) ==
    Once(validateRepositoryName(repository), LAMBDA name :
    Once(FilterByPattern(commitOids), LAMBDA candidates :
    Once(Concat([i \in 1..Len(candidates) |-> candidates[i] \o <<"\n">>]),
         LAMBDA stdin :
    Once(Exec(repository, fate, Return(StripFinalNewline(RevListNoWalk(stdin)))),
         LAMBDA run :
        LET processes == <<Spawn("rev-list", stdin)>>
        IN  IF name.threw THEN Ran(name, <<>>)
            ELSE IF ~run.threw
            THEN Ran(Return(SelectSeq(Split(run.value, "\n"),
                                      LAMBDA line : line # <<>>)),
                     processes)
            ELSE IF run.value.killed THEN Ran(Throw("AbortError"), processes)
            ELSE IF run.value.code = "ENOENT"
            THEN Ran(ThrowWith("UnknownRepositoryError",
                               [repository |-> repository]),
                     processes)
            ELSE Ran(run, processes)))))

\* filterValidCommits when rev-list runs to its end.
filterValidCommits(repository, commitOids) ==
    filterValidCommitsRun(repository, commitOids, OkFate).result

\* As checkCommitExistsRun, without the test of the filtered list.
checkCommitExists_NoEmptyTest(repository, commit, fate) ==
    Once(validateObjectID(commit), LAMBDA oid :
    Once(filterValidCommitsRun(repository, <<commit>>, fate), LAMBDA filtered :
        IF oid.threw THEN Ran(oid, <<>>)
        ELSE IF filtered.result.threw THEN filtered
        ELSE Ran(Return(<<>>), filtered.spawned)))

\* checkCommitExists: the commit is validated, then listed by
\* filterValidCommits; an empty listing throws UnknownCommitError.
checkCommitExistsRun(repository, commit, fate) ==
    Once(validateObjectID(commit), LAMBDA oid :
    Once(filterValidCommitsRun(repository, <<commit>>, fate), LAMBDA filtered :
        IF oid.threw THEN Ran(oid, <<>>)
        ELSE IF filtered.result.threw THEN filtered
        ELSE IF Len(filtered.result.value) = 0
        THEN Ran(ThrowWith("UnknownCommitError",
                           [repository |-> repository, commit |-> commit]),
                 filtered.spawned)
        ELSE Ran(Return(<<>>), filtered.spawned)))

\* checkCommitExists when rev-list runs to its end.
checkCommitExists(repository, commit) ==
    checkCommitExistsRun(repository, commit, OkFate).result

\* checkRepositoryExists: the name is validated, then the directory is
\* looked up.
checkRepositoryExists(repository) ==
    LET name == validateRepositoryName(repository)
    IN  IF name.threw THEN name
        ELSE IF ~DirectoryExists(repository)
        THEN ThrowWith("UnknownRepositoryError", [repository |-> repository])
        ELSE Return(<<>>)

(***************************************************************************)
(* Code smell mutations and resolvers                                      *)
(***************************************************************************)
\* Most code smells ever inserted, and most code smells of one mutation.
MaxIds == 3

MaxSmells == 2

\* The largest ordinal a caller supplies.
MaxOrdinal == 2

AnalysisNames == {"A1"}

LifespanIds == {"L1", "L2"}

\* The analysis read from a code smell input that carries none.
NoAnalysis == "undefined"

\* The elements of codeSmells. The handler reads lifespan, ordinal,
\* locations and analysis from each element (kind and message are stored as
\* given and read by nothing modelled here). The GraphQL input type declares
\* no analysis field, so an element that came through GraphQL has none.
CodeSmellInputs ==
    [lifespan : {"L1"}, ordinal : 0..MaxOrdinal,
     analysis : AnalysisNames, locations : {<<>>}]
    \cup { [lifespan |-> "L2", ordinal |-> 0, analysis |-> "A1",
            locations |-> <<>>],
           [lifespan |-> "L1", ordinal |-> 0, analysis |-> NoAnalysis,
            locations |-> <<>>],
           [lifespan |-> "L1", ordinal |-> 0, analysis |-> "A1",
            locations |-> <<<<"/", "f">>>>] }

\* The lists of code smells of one mutation.
CodeSmellLists == SeqsUpTo(CodeSmellInputs, MaxSmells)

\* The commits a mutation names: those of the repository and one it lacks.
CommitInputs == {History[i] : i \in 1..Len(History)} \cup {UnknownCommit}

\* The repositories a mutation names.
RepositoryInputs == {RepoName, AbsentRepoName}

\* What the two checks that open addCodeSmells give for each repository and
\* commit a mutation names; the repositories do not change.
ExistenceChecks ==
    [repository \in RepositoryInputs, commit \in CommitInputs |->
        [repository |-> checkRepositoryExists(repository),
         commit |-> checkCommitExists(repository, commit)]]

\* The ordinal an ancestry-based sequencer would store.
StoredOrdinal_AncestryRank(codeSmell, commit) == AncestryRank(commit)

\* The ordinal of the inserted row: ${ordinal}, the input's.
StoredOrdinal(codeSmell, commit) == codeSmell.ordinal

\* The index on (lifespan, ordinal) already holds this pair.
OrdinalTaken(smells, lifespan, ordinal) ==
    \E row \in smells : row.lifespan = lifespan /\ row.ordinal = ordinal

\* The body of pMap's mapper for one code smell, on the tables db of the
\* open transaction: the checks, then the three inserts.
InsertCodeSmell(db, repository, commit, codeSmell) ==
    LET ordinal == StoredOrdinal(codeSmell, commit)
    IN  IF \E i \in 1..Len(codeSmell.locations) : isAbsolute(codeSmell.locations[i])
        THEN [threw |-> TRUE, error |-> "File path must be relative", db |-> db]
        ELSE IF codeSmell.analysis \notin analyses
        THEN [threw |-> TRUE, error |-> "UnknownAnalysisError", db |-> db]
        ELSE IF OrdinalTaken(db.smells, codeSmell.lifespan, ordinal)
        THEN [threw |-> TRUE, error |-> "unique_violation", db |-> db]
        ELSE [threw |-> FALSE, error |-> "none",
              db |-> [lifespans |->
                          IF \E l \in db.lifespans : l.id = codeSmell.lifespan
                          THEN db.lifespans
                          ELSE db.lifespans \cup
                                 {[id |-> codeSmell.lifespan, repository |-> repository,
                                   analysis |-> codeSmell.analysis]},
                      analyzed |-> db.analyzed \cup
                                 {[analysis |-> codeSmell.analysis,
                                   repository |-> repository, commit |-> commit]},
                      smells |-> db.smells \cup
                                 {[id |-> db.nextId, commit |-> commit,
                                   lifespan |-> codeSmell.lifespan, ordinal |-> ordinal]},
                      nextId |-> db.nextId + 1,
                      supplied |-> [id \in DOMAIN db.supplied \cup {db.nextId} |->
                                      IF id = db.nextId THEN codeSmell.ordinal
                                      ELSE db.supplied[id]]]]

\* The transaction over codeSmells from the i-th on (1-based): it stops at
\* the first code smell that throws.
RECURSIVE Transaction(_, _, _, _, _)
Transaction(db, repository, commit, codeSmells, i) ==
    IF i > Len(codeSmells) THEN [threw |-> FALSE, error |-> "none", db |-> db]
    ELSE LET one == InsertCodeSmell(db, repository, commit, codeSmells[i])
         IN  IF one.threw THEN one
             ELSE Transaction(one.db, repository, commit, codeSmells, i + 1)

Outcome(op, result) == [op |-> op, threw |-> result.threw, error |-> result.error]

\* createAnalysis: the name of an analysis is unique.
CreateAnalysis ==
    \E name \in AnalysisNames :
        /\ IF name \in analyses
           THEN /\ response' = [op |-> "createAnalysis", threw |-> TRUE,
                                error |-> "unique_violation"]
                /\ UNCHANGED analyses
           ELSE /\ response' = [op |-> "createAnalysis", threw |-> FALSE,
                                error |-> "none"]
                /\ analyses' = analyses \cup {name}
        /\ UNCHANGED <<code_smell_lifespans, analyzed_commits, code_smells,
                       nextId, suppliedOrdinal>>
        /\ UNCHANGED <<fnVars, procVars>>

\* addCodeSmells for one repository and commit: the repository and the
\* commit are checked and a failed check throws before the transaction is
\* opened; then all code smells are inserted in one transaction, which a
\* throw rolls back.
AddCodeSmellsOn(repository, commit) ==
    LET repositoryCheck == ExistenceChecks[repository, commit].repository
        commitCheck == ExistenceChecks[repository, commit].commit
    IN  /\ IF repositoryCheck.threw
           THEN /\ response' = Outcome("addCodeSmells", repositoryCheck)
                /\ UNCHANGED <<code_smell_lifespans, analyzed_commits,
                               code_smells, nextId, suppliedOrdinal>>
           ELSE IF commitCheck.threw
           THEN /\ response' = Outcome("addCodeSmells", commitCheck)
                /\ UNCHANGED <<code_smell_lifespans, analyzed_commits,
                               code_smells, nextId, suppliedOrdinal>>
           ELSE \E codeSmells \in CodeSmellLists :
                LET done == Transaction([lifespans |-> code_smell_lifespans,
                                         analyzed |-> analyzed_commits,
                                         smells |-> code_smells,
                                         nextId |-> nextId,
                                         supplied |-> suppliedOrdinal],
                                        repository, commit, codeSmells, 1)
                IN  /\ nextId + Len(codeSmells) - 1 <= MaxIds
                    /\ response' = Outcome("addCodeSmells", done)
                    /\ IF done.threw
                       THEN UNCHANGED <<code_smell_lifespans, analyzed_commits,
                                        code_smells, nextId, suppliedOrdinal>>
                       ELSE /\ code_smell_lifespans' = done.db.lifespans
                            /\ analyzed_commits' = done.db.analyzed
                            /\ code_smells' = done.db.smells
                            /\ nextId' = done.db.nextId
                            /\ suppliedOrdinal' = done.db.supplied
        /\ UNCHANGED analyses
        /\ UNCHANGED <<fnVars, procVars>>

AddCodeSmells ==
    \E repository \in RepositoryInputs, commit \in CommitInputs :
        AddCodeSmellsOn(repository, commit)

\* deleteCodeSmell: delete from code_smells where id = ...
DeleteCodeSmell ==
    \E id \in 1..MaxIds :
        /\ IF \E row \in code_smells : row.id = id
           THEN /\ code_smells' = {row \in code_smells : row.id # id}
                /\ response' = [op |-> "deleteCodeSmell", threw |-> FALSE,
                                error |-> "none"]
           ELSE /\ UNCHANGED code_smells
                /\ response' = [op |-> "deleteCodeSmell", threw |-> TRUE,
                                error |-> "UnknownCodeSmellError"]
        /\ suppliedOrdinal' = [i \in DOMAIN suppliedOrdinal \ {id} |-> suppliedOrdinal[i]]
        /\ UNCHANGED <<analyses, code_smell_lifespans, analyzed_commits, nextId>>
        /\ UNCHANGED <<fnVars, procVars>>

\* deleteCodeSmellLifespan: the lifespan goes, and its instances with it.
DeleteCodeSmellLifespan ==
    \E lifespan \in LifespanIds :
        /\ IF \E l \in code_smell_lifespans : l.id = lifespan
           THEN /\ code_smell_lifespans' =
                       {l \in code_smell_lifespans : l.id # lifespan}
                /\ code_smells' = {row \in code_smells : row.lifespan # lifespan}
                /\ response' = [op |-> "deleteCodeSmellLifespan", threw |-> FALSE,
                                error |-> "none"]
           ELSE /\ UNCHANGED <<code_smell_lifespans, code_smells>>
                /\ response' = [op |-> "deleteCodeSmellLifespan", threw |-> TRUE,
                                error |-> "UnknownCodeSmellLifespanError"]
        /\ suppliedOrdinal' =
               [i \in {row.id : row \in code_smells'} |-> suppliedOrdinal[i]]
        /\ UNCHANGED <<analyses, analyzed_commits, nextId>>
        /\ UNCHANGED <<fnVars, procVars>>

\* What a resolver returns for null.
NoCodeSmell == [id |-> 0, commit |-> <<>>, lifespan |-> "none", ordinal |-> -1]

\* loaders.codeSmell.byOrdinal: the code smell of the lifespan with the
\* ordinal, or UnknownCodeSmellError.
ByOrdinal(lifespan, ordinal) ==
    IF \E row \in code_smells : row.lifespan = lifespan /\ row.ordinal = ordinal
    THEN Return(CHOOSE row \in code_smells :
                    row.lifespan = lifespan /\ row.ordinal = ordinal)
    ELSE Throw("UnknownCodeSmellError")

\* CodeSmellResolver.predecessor
predecessor(codeSmell) ==
    LET loaded == ByOrdinal(codeSmell.lifespan, codeSmell.ordinal - 1)
    IN  IF loaded.threw THEN NoCodeSmell ELSE loaded.value

\* CodeSmellResolver.successor
successor(codeSmell) ==
    LET loaded == ByOrdinal(codeSmell.lifespan, codeSmell.ordinal + 1)
    IN  IF loaded.threw THEN NoCodeSmell ELSE loaded.value

InitLifespans == FnIdle /\ DbEmpty /\ ProcIdle

NextLifespans ==
    \/ CreateAnalysis
    \/ AddCodeSmells
    \/ DeleteCodeSmell
    \/ DeleteCodeSmellLifespan

SpecLifespans == InitLifespans /\ [][NextLifespans]_vars

(***************************************************************************)
(* Claims about the lifespans                                              *)
(***************************************************************************)
\* The stored detections of a lifespan.
Detections(lifespan) == {row \in code_smells : row.lifespan = lifespan}

Consecutive(d1, d2) ==
    /\ d1.lifespan = d2.lifespan
    /\ d1.ordinal < d2.ordinal
    /\ ~\E d \in Detections(d1.lifespan) :
          d1.ordinal < d.ordinal /\ d.ordinal < d2.ordinal

Tables == <<code_smell_lifespans, analyzed_commits, code_smells>>

\* C11: addCodeSmells for a commit that is not in the repository's history
\* throws UnknownCommitError, and for a repository that does not exist
\* UnknownRepositoryError, and such a call leaves every lifespan, analyzed
\* commit and code smell record as it was.
C11_UnknownFailsBeforeWrites ==
    [][\A repository \in RepositoryInputs, commit \in CommitInputs :
          ( /\ \/ repository \notin Repositories
               \/ \A i \in 1..Len(History) : History[i] # commit
            /\ AddCodeSmellsOn(repository, commit) )
          => /\ response'.op = "addCodeSmells"
             /\ response'.threw
             /\ response'.error = IF repository \notin Repositories
                                  THEN "UnknownRepositoryError"
                                  ELSE "UnknownCommitError"
             /\ Tables' = Tables]_vars

\* addCodeSmells has thrown UnknownCommitError on a database that holds
\* code smells.
C11_Witness ==
    /\ response.op = "addCodeSmells"
    /\ response.threw
    /\ response.error = "UnknownCommitError"
    /\ code_smells # {}
    /\ code_smell_lifespans # {}

(***************************************************************************)
(* Commit existence                                                        *)
(***************************************************************************)
\* Most candidates of one call of filterValidCommits.
MaxCandidates == 2

\* The all-zero object ID.
ZeroCommit == Commit("0")

\* The strings a caller passes for a commit: object IDs the repository
\* holds and does not hold, and strings that only contain an object ID.
CommitCandidates ==
    { History[1], History[2], UnknownCommit, ZeroCommit,
      History[1] \o <<"\n">>, History[2] \o <<"^">>, <<"x">> \o History[1],
      <<"a", "b", "c">> }

\* A cancellation may kill rev-list.
ExistenceFates == {OkFate, KilledFate}

InitExistence ==
    /\ call = "none"
    /\ arg \in [repository : {RepoName, AbsentRepoName},
                commitOids : SeqsUpTo(CommitCandidates, MaxCandidates)]
    /\ ret = Pending
    /\ DbEmpty
    /\ ProcIdle

FilterValidCommits ==
    /\ call = "none"
    /\ \E fate \in ExistenceFates :
          \E run \in {filterValidCommitsRun(arg.repository, arg.commitOids, fate)} :
             /\ ret' = run.result
             /\ spawned' = run.spawned
    /\ call' = "filterValidCommits"
    /\ UNCHANGED <<arg, gitProcess, iteration, initialization>>
    /\ UNCHANGED dbVars

\* checkCommitExists on the first of the candidates.
CheckCommitExists ==
    /\ call = "none"
    /\ Len(arg.commitOids) > 0
    /\ \E fate \in ExistenceFates :
          \E run \in {checkCommitExistsRun(arg.repository, arg.commitOids[1], fate)} :
             /\ ret' = run.result
             /\ spawned' = run.spawned
    /\ call' = "checkCommitExists"
    /\ UNCHANGED <<arg, gitProcess, iteration, initialization>>
    /\ UNCHANGED dbVars

NextExistence == FilterValidCommits \/ CheckCommitExists

SpecExistence == InitExistence /\ [][NextExistence]_vars

\* The commit is one of the repository.
InHistory(commit) == \E i \in 1..Len(History) : History[i] = commit

\* C18: checkCommitExists succeeds if and only if the commit is a
\* syntactically valid object ID that the repository holds; for a valid ID
\* that it does not hold, the all-zero ID among them, it throws
\* UnknownCommitError naming the repository and the commit.
C18_SucceedsIffPresentObjectID ==
    ( /\ call = "checkCommitExists"
      /\ arg.repository = RepoName
      /\ ret.error # "AbortError" ) =>
        LET commit == arg.commitOids[1]
        IN  /\ ~ret.threw <=> (IsObjectID(commit) /\ InHistory(commit))
            /\ (IsObjectID(commit) /\ ~InHistory(commit)) =>
                  /\ ret.error = "UnknownCommitError"
                  /\ ret.value = [repository |-> RepoName, commit |-> commit]

\* The lines written to the stdin of the spawned process.
LinesWritten(process) ==
    LET pieces == Split(process.input, "\n")
    IN  SubSeq(pieces, 1, Len(pieces) - 1)

\* C19: every line that filterValidCommits writes to the stdin of rev-list
\* is one 40-character lowercase-hex object ID, the input ends with a
\* newline, and the returned list holds object IDs only.
C19_OnlyObjectIDsWritten ==
    call = "filterValidCommits" =>
        /\ \A p \in 1..Len(spawned) :
              /\ \A i \in 1..Len(LinesWritten(spawned[p])) :
                    IsObjectID(LinesWritten(spawned[p])[i])
              /\ spawned[p].input # <<>> =>
                    spawned[p].input[Len(spawned[p].input)] = "\n"
        /\ ~ret.threw => \A i \in 1..Len(ret.value) : IsObjectID(ret.value[i])

(***************************************************************************)
(* History streamer                                                        *)
(***************************************************************************)
\* String.prototype.includes and String.prototype.startsWith
Includes(s, part) ==
    \E i \in 0..(Len(s) - Len(part)) : Slice(s, i, i + Len(part)) = part

StartsWith(s, prefix) ==
    Len(s) >= Len(prefix) /\ Slice(s, 0, Len(prefix)) = prefix

\* 'fatal: bad object' and 'fatal: bad revision'
FatalBadObject ==
    <<"f", "a", "t", "a", "l", ":", " ", "b", "a", "d", " ", "o", "b", "j",
      "e", "c", "t">>

FatalBadRevision ==
    <<"f", "a", "t", "a", "l", ":", " ", "b", "a", "d", " ", "r", "e", "v",
      "i", "s", "i", "o", "n">>

\* The default start revision and a revision range.
HeadRevision == <<"H", "E", "A", "D">>

RevisionRange == <<"a", ".", ".", "b">>

\* As log, with the repository name validated before the start revision.
log_NameFirst(repository, startRevision) ==
    LET name == validateRepositoryName(repository)
    IN  IF name.threw THEN Ran(name, <<>>)
        ELSE IF Includes(startRevision, <<".", ".">>)
        THEN Ran(Throw("Start revision cannot be a revision range"), <<>>)
        ELSE Ran(Return(<<>>), <<Spawn("log", <<>>)>>)

\* log up to the return of the iterable: the start revision is tested for
\* '..', the repository name is validated, and git log is spawned.
log(repository, startRevision) ==
    LET name == validateRepositoryName(repository)
    IN  IF Includes(startRevision, <<".", ".">>)
        THEN Ran(Throw("Start revision cannot be a revision range"), <<>>)
        ELSE IF name.threw THEN Ran(name, <<>>)
        ELSE Ran(Return(<<>>), <<Spawn("log", <<>>)>>)

\* The number of commits git log prints from the start revision on.
LogLength(startRevision) ==
    IF startRevision = HeadRevision THEN Len(History)
    ELSE IF InHistory(startRevision) THEN AncestryRank(startRevision) + 1
    ELSE 0

\* As catchWith, with the test of the spawn failure before the test of killed.
catchWith_EnoentFirst(err) ==
    IF err.code = "ENOENT" THEN "UnknownRepositoryError"
    ELSE IF err.killed THEN "AbortError"
    ELSE IF err.exitCode = 128 /\ StartsWith(err.stderr, FatalBadObject)
    THEN "UnknownCommitError"
    ELSE IF err.exitCode = 128 /\ StartsWith(err.stderr, FatalBadRevision)
    THEN "UnknownRevisionError"
    ELSE err.name

\* The handler of catchWith: the name of the error it throws for err.
catchWith(err) ==
    IF err.killed THEN "AbortError"
    ELSE IF err.code = "ENOENT" THEN "UnknownRepositoryError"
    ELSE IF err.exitCode = 128 /\ StartsWith(err.stderr, FatalBadObject)
    THEN "UnknownCommitError"
    ELSE IF err.exitCode = 128 /\ StartsWith(err.stderr, FatalBadRevision)
    THEN "UnknownRevisionError"
    ELSE err.name

\* As Kill, doing nothing.
Kill_Never(process) == process

\* gitProcess.kill(): a running process is killed, one that has ended stays
\* as it ended.
Kill(process) == IF process = "running" THEN "killed" ELSE process

\* The errors the stream of git log raises: what execa reports of the
\* process, and an error that is a domain error already.
LogErrors ==
    [name : {"ExecaError"}, killed : BOOLEAN, code : {"ENOENT", "none"},
     exitCode : {1, 128},
     stderr : {FatalBadObject \o <<" ", "9">>, FatalBadRevision \o <<" ", "x">>,
               <<"e", "r", "r">> \o FatalBadObject, <<>>}]
    \cup {[name |-> "UnknownCommitError", killed |-> FALSE, code |-> "none",
           exitCode |-> 0, stderr |-> <<>>]}

InitLog ==
    /\ call = "none"
    /\ arg \in [repository : {RepoName, AbsentRepoName, RepoName \o DotGit},
                startRevision : {HeadRevision, History[1], UnknownCommit,
                                 RevisionRange}]
    /\ ret = Pending
    /\ DbEmpty
    /\ ProcIdle

\* log is called: it throws, or it spawns git log and returns the iterable.
Log ==
    /\ call = "none"
    /\ call' = "log"
    /\ \E run \in {log(arg.repository, arg.startRevision)} :
           /\ ret' = run.result
           /\ spawned' = run.spawned
           /\ gitProcess' = IF run.spawned # <<>> /\ DirectoryExists(arg.repository)
                            THEN "running" ELSE "none"
           /\ iteration' = IF run.result.threw THEN iteration
                           ELSE [iteration EXCEPT !.state = "created"]
    /\ UNCHANGED <<arg, initialization>>
    /\ UNCHANGED dbVars

\* The iteration goes on.
Iterating == call = "log" /\ iteration.state \in {"created", "iterating"}

\* git log exits after it has printed its commits.
ProcessExits ==
    /\ call = "log"
    /\ gitProcess = "running"
    /\ gitProcess' = "exited"
    /\ UNCHANGED <<fnVars, spawned, iteration, initialization>>
    /\ UNCHANGED dbVars

\* The consumer asks for the next commit and gets one.
NextCommit ==
    /\ Iterating
    /\ gitProcess \in {"running", "exited"}
    /\ iteration.yielded < LogLength(arg.startRevision)
    /\ iteration' = [iteration EXCEPT !.state = "iterating",
                                      !.yielded = iteration.yielded + 1]
    /\ UNCHANGED <<fnVars, spawned, gitProcess, initialization>>
    /\ UNCHANGED dbVars

\* The consumer asks for the next commit and the output has ended: the
\* iteration completes, and finally runs.
Completes ==
    /\ Iterating
    /\ gitProcess = "exited"
    /\ iteration.yielded = LogLength(arg.startRevision)
    /\ iteration' = [iteration EXCEPT !.state = "done"]
    /\ gitProcess' = Kill(gitProcess)
    /\ UNCHANGED <<fnVars, spawned, initialization>>
    /\ UNCHANGED dbVars

\* The consumer stops before the end (break, or an error thrown in its
\* loop): the iterator is returned, and finally runs.
StopsEarly ==
    /\ call = "log"
    /\ iteration.state = "iterating"
    /\ iteration' = [iteration EXCEPT !.state = "done"]
    /\ gitProcess' = Kill(gitProcess)
    /\ UNCHANGED <<fnVars, spawned, initialization>>
    /\ UNCHANGED dbVars

\* The stream raises an error while the consumer waits for a commit:
\* catchWith classifies it, the iteration ends with what it throws, and
\* finally runs.
StreamFails ==
    /\ Iterating
    /\ \E err \in LogErrors :
          iteration' = [iteration EXCEPT !.state = "done",
                                         !.error = catchWith(err),
                                         !.cause = err]
    /\ gitProcess' = Kill(gitProcess)
    /\ UNCHANGED <<fnVars, spawned, initialization>>
    /\ UNCHANGED dbVars

NextLog ==
    \/ Log
    \/ ProcessExits
    \/ NextCommit
    \/ Completes
    \/ StopsEarly
    \/ StreamFails

SpecLog == InitLog /\ [][NextLog]_vars

\* C12: on every way the iteration over log ends once it has started (all
\* commits consumed, the consumer stops early, an error, a cancellation) the
\* git process has been killed or has exited when the end is observed: no
\* process of log is running then.
C12_NoProcessLeftRunning ==
    (call = "log" /\ iteration.state = "done") => gitProcess # "running"

\* The consumer has stopped after the first of two commits while git log
\* was running, and the process is killed.
C12_Witness ==
    /\ call = "log"
    /\ iteration.state = "done"
    /\ iteration.yielded = 1
    /\ LogLength(arg.startRevision) = 2
    /\ iteration.error = "none"
    /\ gitProcess = "killed"

\* C13: log with a start revision that contains '..' throws at once and
\* spawns no process, also when the repository name is invalid: the test of
\* the start revision comes first.
C13_RangeRejectedBeforeSpawn ==
    (call = "log" /\ Includes(arg.startRevision, <<".", ".">>)) =>
        /\ ret.threw
        /\ ret.error = "Start revision cannot be a revision range"
        /\ spawned = <<>>
        /\ gitProcess = "none"
        /\ iteration.state = "none"

\* log has thrown for a revision range and an invalid repository name.
C13_Witness ==
    /\ call = "log"
    /\ arg.startRevision = RevisionRange
    /\ validateRepositoryName(arg.repository).threw
    /\ ret.error = "Start revision cannot be a revision range"
    /\ spawned = <<>>

\* C16: an error of the log process is classified once, in this order:
\* killed gives AbortError; else ENOENT gives UnknownRepositoryError; else
\* exit status 128 with stderr starting 'fatal: bad object' gives
\* UnknownCommitError; else exit status 128 with stderr starting 'fatal: bad
\* revision' gives UnknownRevisionError; any other error, a domain error
\* among them, is thrown as it is.
C16_ClassifiedInPrecedence ==
    (call = "log" /\ iteration.state = "done" /\ iteration.cause.name # "none") =>
        LET err == iteration.cause
            fatal128(prefix) ==
                /\ err.exitCode = 128
                /\ Len(err.stderr) >= Len(prefix)
                /\ \A i \in 1..Len(prefix) : err.stderr[i] = prefix[i]
        IN  /\ err.killed => iteration.error = "AbortError"
            /\ (~err.killed /\ err.code = "ENOENT") =>
                  iteration.error = "UnknownRepositoryError"
            /\ (~err.killed /\ err.code # "ENOENT" /\ fatal128(FatalBadObject)) =>
                  iteration.error = "UnknownCommitError"
            /\ (~err.killed /\ err.code # "ENOENT" /\ fatal128(FatalBadRevision)) =>
                  iteration.error = "UnknownRevisionError"
            /\ ( /\ ~err.killed /\ err.code # "ENOENT"
                 /\ ~fatal128(FatalBadObject) /\ ~fatal128(FatalBadRevision) ) =>
                  iteration.error = err.name

\* A killed process whose error also carries ENOENT, exit status 128 and
\* 'fatal: bad object' has been classified as AbortError.
C16_Witness ==
    /\ call = "log"
    /\ iteration.state = "done"
    /\ iteration.cause.name = "ExecaError"
    /\ iteration.cause.killed
    /\ iteration.cause.code = "ENOENT"
    /\ iteration.cause.exitCode = 128
    /\ StartsWith(iteration.cause.stderr, FatalBadObject)
    /\ iteration.error = "AbortError"

(***************************************************************************)
(* The operations on a repository, each with the processes it spawns       *)
(***************************************************************************)
\* The one file that every commit of the repository holds.
TrackedFile == <<"f">>

\* What git show says of a path that the commit does not hold, or that
\* leaves the repository.
FatalPath == <<"f", "a", "t", "a", "l", ":", " ", "p", "a", "t", "h">>

\* 'fatal: not a tree object'
FatalNotATree ==
    <<"f", "a", "t", "a", "l", ":", " ", "n", "o", "t", " ", "a", " ",
      "t", "r", "e", "e", " ", "o", "b", "j", "e", "c", "t">>

\* getFileContent: the repository name and the commit are validated, the
\* file is not; git show prints the blob. Nothing is caught.
getFileContent(repository, commit, file, fate) ==
    Once(validateRepositoryName(repository), LAMBDA name :
    Once(validateObjectID(commit), LAMBDA oid :
        LET ended == IF InHistory(commit) /\ file = TrackedFile
                     THEN Return(<<"a">>)
                     ELSE ExecaError(FALSE, "none", 128, FatalPath)
        IN  IF name.threw THEN Ran(name, <<>>)
            ELSE IF oid.threw THEN Ran(oid, <<>>)
            ELSE Ran(Exec(repository, fate, ended), <<Spawn("show", <<>>)>>)))

\* What git cat-file finds under the names on its input: the content of
\* the tracked file at a commit of the repository, and nothing else.
BlobStore(input) ==
    Once(IF input = <<>> THEN <<>> ELSE Split(input, "\n"), LAMBDA inputLines :
        [n \in {Slice(inputLines[i], 0, IndexOf(inputLines[i], " ")) :
                   i \in 1..Len(inputLines)} |->
            IF \E c \in 1..Len(History) : n = History[c] \o <<":">> \o TrackedFile
            THEN <<"a">> ELSE Missing])

\* getFileContents with its process: nothing is validated; of the errors of
\* git cat-file only the failed spawn is caught.
getFileContentsRun(repository, files, fate) ==
    Once(Join([i \in 1..Len(files) |->
                  FileString(files[i]) \o <<" ">> \o FileString(files[i])], "\n"),
         LAMBDA input :
    Once(BlobStore(input), LAMBDA store :
    Once(Exec(repository, fate, getFileContents(files, store, TRUE)), LAMBDA run :
        LET processes == <<Spawn("cat-file", input)>>
        IN  IF run.threw /\ run.error = "ExecaError" /\ run.value.code = "ENOENT"
            THEN Ran(ThrowWith("UnknownRepositoryError",
                               [repository |-> repository]),
                     processes)
            ELSE Ran(run, processes))))

\* The commit of the repository with the object ID.
RepositoryCommit(oid) ==
    [oid |-> oid,
     parents |-> IF AncestryRank(oid) = 0 THEN <<>>
                 ELSE <<History[AncestryRank(oid)]>>,
     author |-> AuthorSignature, committer |-> CommitterSignature,
     message |-> <<"m">>]

\* What git show prints of the commits in commitFormat: of the revisions
\* given, of HEAD if none is given.
ShowCommits(revisions) ==
    Once(IF revisions = <<>> THEN <<History[Len(History)]>> ELSE revisions,
         LAMBDA shown :
        FormatCommits([i \in 1..Len(shown) |-> RepositoryCommit(shown[i])], TRUE))

\* What git show prints of the changes in commitChangesFormat.
ShowChanges(revisions) ==
    Once(IF revisions = <<>> THEN <<History[Len(History)]>> ELSE revisions,
         LAMBDA shown :
        Concat([i \in 1..Len(shown) |->
                   FormatChanges(shown[i],
                       <<(IF AncestryRank(shown[i]) = 0 THEN <<"A">> ELSE <<"M">>)
                             \o <<"\t">> \o TrackedFile>>)]))

\* As getCommits, with git show spawned once more when it has failed.
getCommits_ShowRetried(repository, commitOids, fate, showFate) ==
    Once(validateRepositoryName(repository), LAMBDA name :
    Once(filterValidCommitsRun(repository, commitOids, fate), LAMBDA filtered :
        IF name.threw THEN Ran(name, <<>>)
        ELSE IF filtered.result.threw THEN filtered
        ELSE Once(Exec(repository, showFate,
                       Return(ShowCommits(filtered.result.value))), LAMBDA run :
            LET processes == filtered.spawned \o <<Spawn("show", <<>>)>>
            IN  IF ~run.threw THEN Ran(parseCommits(run.value), processes)
                ELSE IF run.value.code = "ENOENT"
                THEN Ran(ThrowWith("UnknownRepositoryError",
                                   [repository |-> repository]),
                         processes)
                ELSE Ran(run, processes \o <<Spawn("show", <<>>)>>))))

\* getCommits: the repository name is validated, the commits are listed
\* by filterValidCommits, whose errors pass through, and git show prints
\* the listed ones; of the errors of git show only the failed spawn is
\* caught.
getCommits(repository, commitOids, fate, showFate) ==
    Once(validateRepositoryName(repository), LAMBDA name :
    Once(filterValidCommitsRun(repository, commitOids, fate), LAMBDA filtered :
        IF name.threw THEN Ran(name, <<>>)
        ELSE IF filtered.result.threw THEN filtered
        ELSE Once(Exec(repository, showFate,
                       Return(ShowCommits(filtered.result.value))), LAMBDA run :
            LET processes == filtered.spawned \o <<Spawn("show", <<>>)>>
            IN  IF ~run.threw THEN Ran(parseCommits(run.value), processes)
                ELSE IF run.value.code = "ENOENT"
                THEN Ran(ThrowWith("UnknownRepositoryError",
                                   [repository |-> repository]),
                         processes)
                ELSE Ran(run, processes))))

\* getCombinedCommitDifference: as getCommits, the repository name being
\* validated by filterValidCommits only.
getCombinedCommitDifference(repository, commitOids, fate, showFate) ==
    Once(filterValidCommitsRun(repository, commitOids, fate), LAMBDA filtered :
        IF filtered.result.threw THEN filtered
        ELSE Once(Exec(repository, showFate,
                       Return(ShowChanges(filtered.result.value))), LAMBDA run :
            LET processes == filtered.spawned \o <<Spawn("show", <<>>)>>
            IN  IF ~run.threw
                THEN Ran(Return(parseCombinedDifference(run.value)), processes)
                ELSE IF run.value.code = "ENOENT"
                THEN Ran(ThrowWith("UnknownRepositoryError",
                                   [repository |-> repository]),
                         processes)
                ELSE Ran(run, processes)))

\* listFiles: the commit and the repository name are validated, and the
\* directory if one is given; git ls-tree prints the paths. A killed
\* process throws AbortError and 'fatal: not a tree object' with exit
\* status 128 UnknownCommitError; any other error is thrown as it is.
listFiles(repository, commit, directory, fate) ==
    Once(validateObjectID(commit), LAMBDA oid :
    Once(validateRepositoryName(repository), LAMBDA name :
    Once(validateRelativeRepoPath(directory), LAMBDA path :
        LET ended == IF ~InHistory(commit)
                     THEN ExecaError(FALSE, "none", 128, FatalNotATree)
                     ELSE IF directory = <<>> \/ path.value = TrackedFile
                     THEN Return(TrackedFile)
                     ELSE Return(<<>>)
            processes == <<Spawn("ls-tree", <<>>)>>
        IN  IF oid.threw THEN Ran(oid, <<>>)
            ELSE IF name.threw THEN Ran(name, <<>>)
            ELSE IF directory # <<>> /\ path.threw THEN Ran(path, <<>>)
            ELSE Once(Exec(repository, fate, ended), LAMBDA run :
                IF ~run.threw THEN Ran(Return(Split(run.value, "\n")), processes)
                ELSE IF run.value.killed THEN Ran(Throw("AbortError"), processes)
                ELSE IF /\ run.value.exitCode = 128
                        /\ Includes(run.value.stderr, FatalNotATree)
                THEN Ran(ThrowWith("UnknownCommitError",
                                   [repository |-> repository, commit |-> commit]),
                         processes)
                ELSE Ran(run, processes)))))

\* A repository name that validateRepositoryName rejects and that
\* resolveRepoDir takes to the directory of the repository.
InvalidName == <<".", "/">> \o RepoName

\* The files and directories a caller names: none, the tracked file, a path
\* that the commits do not hold, a path that leaves the repository, and an
\* absolute path.
FileInputs ==
    {<<>>, TrackedFile, <<"g">>, <<".", ".", "/">> \o TrackedFile, <<"/">> \o TrackedFile}

\* A process runs to its end, is killed by a cancellation, or fails.
Fates == ExistenceFates \cup {FailedFate(1, <<>>)}

InitOperations ==
    /\ call = "none"
    /\ arg \in [repository : {RepoName, AbsentRepoName, InvalidName},
                commitOids : {<<>>} \cup {<<c>> : c \in CommitCandidates},
                file : FileInputs,
                startRevision : {HeadRevision}]
    /\ ret = Pending
    /\ DbEmpty
    /\ ProcIdle

CheckRepositoryExists ==
    /\ call = "none"
    /\ call' = "checkRepositoryExists"
    /\ ret' = checkRepositoryExists(arg.repository)
    /\ UNCHANGED arg
    /\ UNCHANGED dbVars
    /\ UNCHANGED procVars

\* getFileContent of the file at the first of the candidates.
GetFileContent ==
    /\ call = "none"
    /\ Len(arg.commitOids) > 0
    /\ \E fate \in Fates :
          \E run \in {getFileContent(arg.repository, arg.commitOids[1], arg.file, fate)} :
             /\ ret' = run.result
             /\ spawned' = run.spawned
    /\ call' = "getFileContent"
    /\ UNCHANGED <<arg, gitProcess, iteration, initialization>>
    /\ UNCHANGED dbVars

\* getFileContents of the file at each of the candidates.
GetFileContentsRun ==
    /\ call = "none"
    /\ \E fate \in Fates :
          LET files == [i \in 1..Len(arg.commitOids) |->
                           [commit |-> arg.commitOids[i], file |-> arg.file]]
          IN  \E run \in {getFileContentsRun(arg.repository, files, fate)} :
                 /\ ret' = run.result
                 /\ spawned' = run.spawned
    /\ call' = "getFileContents"
    /\ UNCHANGED <<arg, gitProcess, iteration, initialization>>
    /\ UNCHANGED dbVars

GetCommits ==
    /\ call = "none"
    /\ \E fate \in Fates, showFate \in Fates :
          \E run \in {getCommits(arg.repository, arg.commitOids, fate, showFate)} :
             /\ ret' = run.result
             /\ spawned' = run.spawned
    /\ call' = "getCommits"
    /\ UNCHANGED <<arg, gitProcess, iteration, initialization>>
    /\ UNCHANGED dbVars

GetCombinedCommitDifference ==
    /\ call = "none"
    /\ \E fate \in Fates, showFate \in Fates :
          \E run \in {getCombinedCommitDifference(arg.repository, arg.commitOids,
                                                 fate, showFate)} :
             /\ ret' = run.result
             /\ spawned' = run.spawned
    /\ call' = "getCombinedCommitDifference"
    /\ UNCHANGED <<arg, gitProcess, iteration, initialization>>
    /\ UNCHANGED dbVars

\* listFiles of the first of the candidates, the file being the directory.
ListFiles ==
    /\ call = "none"
    /\ Len(arg.commitOids) > 0
    /\ \E fate \in Fates :
          \E run \in {listFiles(arg.repository, arg.commitOids[1], arg.file, fate)} :
             /\ ret' = run.result
             /\ spawned' = run.spawned
    /\ call' = "listFiles"
    /\ UNCHANGED <<arg, gitProcess, iteration, initialization>>
    /\ UNCHANGED dbVars

NextOperations ==
    \/ CheckRepositoryExists
    \/ FilterValidCommits
    \/ CheckCommitExists
    \/ GetFileContent
    \/ GetFileContentsRun
    \/ GetCommits
    \/ GetCombinedCommitDifference
    \/ ListFiles
    \/ Log

SpecOperations == InitOperations /\ [][NextOperations]_vars

\* The messages of the errors the validators and log throw for an argument.
ValidationErrors ==
    { "Not a valid Git object ID", "Invalid repository name",
      "Repository names cannot end with .git", "Path is absolute",
      "Path contains relative references",
      "Start revision cannot be a revision range" }

\* The call has failed with a validation error.
FailedValidation == ret.threw /\ ret.error \in ValidationErrors

\* C14: every operation validates its arguments before it spawns a
\* process: with an invalid repository name, with a commit that
\* validateObjectID rejects (for the operations that take one commit or
\* files at commits), or with a file or directory that
\* validateRelativeRepoPath rejects (for the operations that take one), the
\* call fails with a validation error and no process has been spawned.
C14_ValidatedBeforeSpawn ==
    ( /\ call \in {"checkRepositoryExists", "filterValidCommits", "checkCommitExists",
                   "getFileContent", "getFileContents", "getCommits",
                   "getCombinedCommitDifference", "listFiles", "log"}
      /\ \/ validateRepositoryName(arg.repository).threw
         \/ /\ call \in {"checkCommitExists", "getFileContent", "getFileContents",
                         "listFiles"}
            /\ arg.commitOids # <<>>
            /\ validateObjectID(arg.commitOids[1]).threw
         \/ /\ call \in {"getFileContent", "getFileContents", "listFiles"}
            /\ arg.commitOids # <<>>
            /\ arg.file # <<>>
            /\ validateRelativeRepoPath(arg.file).threw )
    => (FailedValidation /\ spawned = <<>>)

\* C15: when the process of an operation is killed, the operation throws
\* AbortError: the error of a killed process is never thrown as it is.
C15_KilledGivesAbortError ==
    ( /\ call \in {"filterValidCommits", "getCommits", "getCombinedCommitDifference",
                   "getFileContents", "getFileContent", "listFiles"}
      /\ ret.threw
      /\ ret.error = "ExecaError" )
    => ~ret.value.killed

\* C17: an operation on a repository that does not exist, called with a
\* valid repository name and arguments that pass validation, throws
\* UnknownRepositoryError. (log reports it on the stream, see C16.)
C17_AbsentRepositoryReported ==
    ( /\ call \in {"checkRepositoryExists", "filterValidCommits", "getCommits",
                   "getCombinedCommitDifference", "getFileContent",
                   "getFileContents", "listFiles"}
      /\ ~validateRepositoryName(arg.repository).threw
      /\ ~DirectoryExists(arg.repository)
      /\ ~FailedValidation )
    => (ret.threw /\ ret.error = "UnknownRepositoryError")

\* C20: a call spawns each git command at most once, and none after a
\* failed validation: getFileContents, listFiles, checkCommitExists and log
\* spawn exactly one process when validation passes; getCommits and
\* getCombinedCommitDifference spawn git rev-list and, when it has
\* succeeded, git show after it, two processes on every call that returns
\* and one when rev-list was killed. No process is spawned a second time.
C20_EachCommandSpawnedOnce ==
    /\ call \in {"getFileContents", "listFiles", "checkCommitExists", "log"} =>
          IF FailedValidation THEN spawned = <<>> ELSE Len(spawned) = 1
    /\ call \in {"getCommits", "getCombinedCommitDifference"} =>
          /\ Len(spawned) <= 2
          /\ \A i \in 1..Len(spawned) :
                spawned[i].command = <<"rev-list", "show">>[i]
          /\ FailedValidation => spawned = <<>>
          /\ ~FailedValidation => Len(spawned) >= 1
          /\ ret.error = "AbortError" => Len(spawned) = 1
          /\ ~ret.threw => Len(spawned) = 2

\* getCommits has returned after git rev-list and git show.
C20_Witness ==
    /\ call = "getCommits"
    /\ ~ret.threw
    /\ Len(spawned) = 2
    /\ spawned[1].command = "rev-list"
    /\ spawned[2].command = "show"

\* C20 as stated: each of the operations spawns exactly one process on a
\* call that passes validation, whether it succeeds or fails.
C20_ExactlyOneProcess ==
    ( /\ call \in {"getCommits", "getCombinedCommitDifference", "getFileContents",
                   "listFiles", "checkCommitExists", "log"}
      /\ ~FailedValidation )
    => Len(spawned) = 1

\* C21: log is lazy: as long as the consumer has not pulled from the
\* returned sequence no process has been spawned, so a sequence that is
\* never iterated leaves no running process.
C21_NoProcessBeforeFirstPull ==
    (call = "log" /\ iteration.state = "created") =>
        (spawned = <<>> /\ gitProcess # "running")

LeadByte == "L"

ContinuationByte == "C"

TwoByteCharacter == "E"

ReplacementCharacter == "?"

\* chunk.toString() of a Buffer: the bytes are decoded as UTF-8, a lead
\* byte with its continuation byte giving the character and each byte that
\* is not part of a whole character the replacement character.
toString(chunk) ==
    Once(chunk, LAMBDA bytes :
        SelectSeq([i \in 1..Len(bytes) |->
                      IF /\ bytes[i] = LeadByte
                         /\ i < Len(bytes)
                         /\ bytes[i + 1] = ContinuationByte
                      THEN TwoByteCharacter
                      ELSE IF /\ bytes[i] = ContinuationByte
                              /\ i > 1
                              /\ bytes[i - 1] = LeadByte
                      THEN ""
                      ELSE IF bytes[i] \in {LeadByte, ContinuationByte}
                      THEN ReplacementCharacter
                      ELSE bytes[i]],
                  LAMBDA character : character # ""))

\* The while loop of split: as long as previous holds the separator, the
\* text before it is yielded and previous is what follows it.
RECURSIVE Drain(_, _, _)
Drain(seperator, previous, yielded) ==
    Once(IndexOf(previous, seperator), LAMBDA eolIndex :
        IF eolIndex >= 0
        THEN Drain(seperator, Slice(previous, eolIndex + 1, Len(previous)),
                   Append(yielded, Slice(previous, 0, eolIndex)))
        ELSE [previous |-> previous, yielded |-> yielded])

\* Most characters of a text.
MaxChars == 3

\* The texts: characters of one byte and of two, and separators.
ScannerTexts ==
    { Concat(characters) :
        characters \in SeqsUpTo({<<"a">>, <<NUL>>, <<LeadByte, ContinuationByte>>},
                                MaxChars) }

\* The text cut into chunks after the bytes at the cut positions, with an
\* empty chunk before every chunk and after the last if empties.
Chunks(text, cuts, empties) ==
    LET points == {0, Len(text)} \cup cuts
        point(k) == CHOOSE p \in points : Cardinality({q \in points : q < p}) = k - 1
        pieces == [k \in 1..(Cardinality(points) - 1) |->
                      SubSeq(text, point(k) + 1, point(k + 1))]
    IN  IF empties
        THEN Concat([k \in 1..Len(pieces) |-> <<<<>>, pieces[k]>>]) \o <<<<>>>>
        ELSE pieces

InitScanner ==
    /\ call = "none"
    /\ arg \in UNION { { [text |-> text, chunks |-> Chunks(text, cuts, empties)] :
                           cuts \in SUBSET (1..(Len(text) - 1)),
                           empties \in BOOLEAN } :
                       text \in ScannerTexts }
    /\ ret = Return([previous |-> <<>>, yielded |-> <<>>, read |-> 0, ended |-> FALSE])
    /\ DbEmpty
    /\ ProcIdle

\* The for await loop takes the next chunk: it is appended to previous as
\* a string and the records before each separator are yielded.
NextChunk ==
    /\ call \in {"none", "split"}
    /\ ~ret.value.ended
    /\ ret.value.read < Len(arg.chunks)
    /\ \E drained \in {Drain(NUL, ret.value.previous
                                     \o toString(arg.chunks[ret.value.read + 1]),
                             ret.value.yielded)} :
          ret' = Return([previous |-> drained.previous, yielded |-> drained.yielded,
                         read |-> ret.value.read + 1, ended |-> FALSE])
    /\ call' = "split"
    /\ UNCHANGED arg
    /\ UNCHANGED dbVars
    /\ UNCHANGED procVars

\* The chunks have ended: what is left in previous is yielded if it is not
\* empty.
ChunksEnd ==
    /\ call \in {"none", "split"}
    /\ ~ret.value.ended
    /\ ret.value.read = Len(arg.chunks)
    /\ ret' = Return([ret.value EXCEPT
                         !.yielded = IF Len(ret.value.previous) > 0
                                     THEN Append(ret.value.yielded, ret.value.previous)
                                     ELSE ret.value.yielded,
                         !.ended = TRUE])
    /\ call' = "split"
    /\ UNCHANGED arg
    /\ UNCHANGED dbVars
    /\ UNCHANGED procVars

NextScanner == NextChunk \/ ChunksEnd

SpecScanner == InitScanner /\ [][NextScanner]_vars

\* The records of a text that arrives in one chunk.
RecordsOfWhole(text) ==
    LET drained == Drain(NUL, toString(text), <<>>)
    IN  drained.yielded
            \o (IF Len(drained.previous) > 0 THEN <<drained.previous>> ELSE <<>>)

\* The number of separators among the bytes of the chunks read.
SeparatorsRead ==
    Len(SelectSeq(Concat(SubSeq(arg.chunks, 1, ret.value.read)),
                  LAMBDA byte : byte = NUL))

\* C24: split is independent of the chunk boundaries: for every text and
\* every way of cutting it into chunks the records yielded are those of
\* the text in one chunk; a record is yielded only after its separator has
\* been read or the input has ended; no record holds the separator; and
\* the records joined with the separator are the text, up to one
\* separator at its end.
C24_ChunkBoundariesDoNotMatter ==
    call = "split" =>
        /\ \A i \in 1..Len(ret.value.yielded) :
              \A j \in 1..Len(ret.value.yielded[i]) : ret.value.yielded[i][j] # NUL
        /\ ~ret.value.ended => Len(ret.value.yielded) <= SeparatorsRead
        /\ ret.value.ended =>
              /\ ret.value.yielded = RecordsOfWhole(arg.text)
              /\ \/ Join(ret.value.yielded, NUL) = toString(arg.text)
                 \/ Join(ret.value.yielded, NUL) \o <<NUL>> = toString(arg.text)

\* C25: when the files of a batch are pairwise distinct, a blob one of
\* whose lines is the marker line of a request of the batch is returned
\* complete, and every entry of the result stays with its request.
C25_MarkerInContentHarmless ==
    ( /\ call = "getFileContents"
      /\ arg.repositoryExists
      /\ \A i, j \in 1..Len(arg.files) : arg.files[i] = arg.files[j] => i = j
      /\ \E i, j \in 1..Len(arg.files) :
            /\ ExpectedContent(i) # Null
            /\ \E n \in 1..Len(Split(ExpectedContent(i), "\n")) :
                  Split(ExpectedContent(i), "\n")[n]
                      = MarkerPrefix \o FileString(arg.files[j]) )
    => /\ ~ret.threw
       /\ Len(ret.value) = Len(arg.files)
       /\ \A i \in 1..Len(arg.files) : ret.value[i] = ExpectedContent(i)

(***************************************************************************)
(* The content of a location                                               *)
(***************************************************************************)
\* LocationResolver.content on the decoded text of the file: the lines
\* from start.line to end.line; one line is sliced from start.character to
\* end.character; of several the first is sliced from start.character and
\* the last from end.character.
content(text, range) ==
    Once(Slice(Split(text, "\n"), range.start.line, range.end.line + 1),
         LAMBDA lines :
        IF Len(lines) = 0 THEN <<>>
        ELSE IF Len(lines) = 1
        THEN Slice(lines[1], range.start.character, range.end.character)
        ELSE Join([i \in 1..Len(lines) |->
                      IF i = 1
                      THEN Slice(lines[1], range.start.character, Len(lines[1]))
                      ELSE IF i = Len(lines)
                      THEN Slice(lines[i], range.end.character, Len(lines[i]))
                      ELSE lines[i]], "\n"))

\* The largest line number and the largest character offset of a position.
MaxLine == 2

MaxCharacter == 2

Positions == [line : 0..MaxLine, character : 0..MaxCharacter]

\* The texts of a file: three lines, one line, and three lines the second
\* of which is empty.
LocationTexts ==
    { <<"a", "b", "\n", "c", "d", "\n", "e", "f">>, <<"a", "b">>,
      <<"a", "\n", "\n", "b", "c">> }

\* The start of a range is not after its end.
InitLocation ==
    /\ call = "none"
    /\ arg \in [text : LocationTexts,
                range : {r \in [start : Positions, end : Positions] :
                            \/ r.start.line < r.end.line
                            \/ /\ r.start.line = r.end.line
                               /\ r.start.character <= r.end.character}]
    /\ ret = Pending
    /\ DbEmpty
    /\ ProcIdle

Content ==
    /\ call = "none"
    /\ call' = "content"
    /\ ret' = Return(content(arg.text, arg.range))
    /\ UNCHANGED arg
    /\ UNCHANGED dbVars
    /\ UNCHANGED procVars

NextLocation == Content

SpecLocation == InitLocation /\ [][NextLocation]_vars

\* C26: the content of a location is the text from the start position,
\* inclusive, to the end position, exclusive, lines and characters counted
\* from 0: on one line the characters from start.character up to
\* end.character; over several lines the first line from start.character, the
\* lines between whole, and the last line up to end.character.
C26_ContentIsTheRange ==
    (call = "content" /\ arg.range.end.line < Len(Split(arg.text, "\n"))) =>
        LET lines == Split(arg.text, "\n")
            first == lines[arg.range.start.line + 1]
            last == lines[arg.range.end.line + 1]
        IN  ret.value =
              IF arg.range.start.line = arg.range.end.line
              THEN Slice(first, arg.range.start.character, arg.range.end.character)
              ELSE Join(<<Slice(first, arg.range.start.character, Len(first))>>
                          \o SubSeq(lines, arg.range.start.line + 2,
                                    arg.range.end.line)
                          \o <<Slice(last, 0, arg.range.end.character)>>, "\n")

(***************************************************************************)
(* The arguments of git log                                                *)
(***************************************************************************)
\* An optional parameter is <<>> when it is undefined and <<v>> when it is
\* given as v. `x ? ... : ...` takes the first branch for a string that is
\* given and is not empty, and for a number that is given and is not 0.
Truthy(parameter) == parameter # <<>> /\ Len(parameter[1]) > 0

TruthyNumber(parameter) == parameter # <<>> /\ parameter[1] # 0

\* One argument of the vector: an option and its value, if it has one.
Argument(option, value) == [option |-> option, value |-> value]

\* The argument vector of git log.
logArguments(options) ==
    <<Argument("log", <<>>), Argument("-z", <<>>), Argument("--format", <<>>)>>
    \o (IF Truthy(options.messagePattern)
        THEN <<Argument("--grep", options.messagePattern),
               Argument("--extended-regexp", <<>>),
               Argument("--regexp-ignore-case", <<>>)>>
        ELSE <<>>)
    \o (IF Truthy(options.since) THEN <<Argument("--since", options.since)>> ELSE <<>>)
    \o (IF Truthy(options.until) THEN <<Argument("--until", options.until)>> ELSE <<>>)
    \o (IF TruthyNumber(options.skip) THEN <<Argument("--skip", options.skip)>> ELSE <<>>)
    \o (IF TruthyNumber(options.maxCount)
        THEN <<Argument("--max-count", options.maxCount)>> ELSE <<>>)
    \o <<Argument("revision", <<options.startRevision>>), Argument("--", <<>>)>>
    \o (IF Truthy(options.path) THEN <<Argument("path", options.path)>> ELSE <<>>)

\* The value of an option in the vector, <<>> if the vector does not hold it.
ValueOf(arguments, option) ==
    IF \E i \in 1..Len(arguments) : arguments[i].option = option
    THEN arguments[CHOOSE i \in 1..Len(arguments) : arguments[i].option = option].value
    ELSE <<>>

\* The number of commits git log prints from HEAD with the arguments: it
\* skips --skip commits of the history and prints at most --max-count.
Walked(arguments) ==
    LET skip == ValueOf(arguments, "--skip")
        maxCount == ValueOf(arguments, "--max-count")
        left == IF skip = <<>> THEN Len(History)
                ELSE IF skip[1] > Len(History) THEN 0 ELSE Len(History) - skip[1]
    IN  IF maxCount # <<>> /\ maxCount[1] < left THEN maxCount[1] ELSE left

\* The largest skip and the largest maxCount.
MaxSkip == 1

MaxCount == 2

InitArguments ==
    /\ call = "none"
    /\ arg \in [startRevision : {HeadRevision},
                messagePattern : {<<>>, <<<<>>>>, <<<<"p">>>>},
                since : {<<>>, <<<<"d">>>>},
                until : {<<>>, <<<<"d">>>>},
                skip : {<<>>} \cup {<<n>> : n \in 0..MaxSkip},
                maxCount : {<<>>} \cup {<<n>> : n \in 0..MaxCount},
                path : {<<>>, <<<<"f">>>>}]
    /\ ret = Pending
    /\ DbEmpty
    /\ ProcIdle

\* log spawns git log with the argument vector, and the walk yields the
\* commits that git prints.
LogArguments ==
    /\ call = "none"
    /\ call' = "log"
    /\ \E arguments \in {logArguments(arg)} :
          ret' = Return([arguments |-> arguments, yielded |-> Walked(arguments)])
    /\ UNCHANGED arg
    /\ UNCHANGED dbVars
    /\ UNCHANGED procVars

NextArguments == LogArguments

SpecArguments == InitArguments /\ [][NextArguments]_vars

\* The order the spec gives the arguments.
ArgumentOrder ==
    <<"log", "-z", "--format", "--grep", "--extended-regexp", "--regexp-ignore-case",
      "--since", "--until", "--skip", "--max-count", "revision", "--", "path">>

\* The position of an option in the order.
OrderOf(option) == CHOOSE k \in 1..Len(ArgumentOrder) : ArgumentOrder[k] = option

\* C27: the walk honours pagination and filters for every value supplied:
\* with maxCount = n, for every n >= 0, the vector holds --max-count=n and
\* at most n commits are yielded; with skip = n >= 1 it holds --skip=n;
\* --grep appears, with --extended-regexp and --regexp-ignore-case, exactly
\* when a pattern that is not empty is given; and the arguments are in the
\* order format, grep, since, until, skip, max-count, start revision, '--',
\* path.
C27_PaginationHonoured ==
    call = "log" =>
        LET arguments == ret.value.arguments
            holds(option) == \E i \in 1..Len(arguments) : arguments[i].option = option
        IN  /\ arg.maxCount # <<>> =>
                  /\ ValueOf(arguments, "--max-count") = arg.maxCount
                  /\ ret.value.yielded <= arg.maxCount[1]
            /\ (arg.skip # <<>> /\ arg.skip[1] >= 1) =>
                  ValueOf(arguments, "--skip") = arg.skip
            /\ holds("--grep") <=> Truthy(arg.messagePattern)
            /\ holds("--grep") <=> holds("--extended-regexp")
            /\ holds("--grep") <=> holds("--regexp-ignore-case")
            /\ holds("--grep") => ValueOf(arguments, "--grep") = arg.messagePattern
            /\ \A i, j \in 1..Len(arguments) :
                  i < j => OrderOf(arguments[i].option) < OrderOf(arguments[j].option)

(***************************************************************************)
(* The streaming and the buffered reading of commits                       *)
(***************************************************************************)
\* Most pieces of an output text.
MaxPieces == 4

\* The output texts: commits in commitFormat and NUL bytes, in any order.
StreamTexts ==
    { Concat(pieces) :
        pieces \in SeqsUpTo(
            { <<NUL>>,
              FormatCommit([oid |-> <<"c", "1">>, parents |-> <<>>,
                            author |-> AuthorSignature,
                            committer |-> CommitterSignature,
                            message |-> <<"m">>]),
              FormatCommit([oid |-> <<"c", "2">>, parents |-> <<<<"c", "1">>>>,
                            author |-> AuthorSignature,
                            committer |-> CommitterSignature,
                            message |-> <<"m", "\n", "\n", "n">>]) },
            MaxPieces) }

InitStreams ==
    /\ call = "none"
    /\ arg \in [text : StreamTexts]
    /\ ret = Pending
    /\ DbEmpty
    /\ ProcIdle

\* The commits log yields when all of them are consumed:
\* .pipe(split('\0')).map(parseCommit) on the output.
Streamed ==
    /\ call = "none"
    /\ call' = "log"
    /\ ret' = MapParseCommit(RecordsOfWhole(arg.text))
    /\ UNCHANGED arg
    /\ UNCHANGED dbVars
    /\ UNCHANGED procVars

\* The commits getCommits parses from the output.
Buffered ==
    /\ call = "none"
    /\ call' = "getCommits"
    /\ ret' = parseCommits(arg.text)
    /\ UNCHANGED arg
    /\ UNCHANGED dbVars
    /\ UNCHANGED procVars

NextStreams == Streamed \/ Buffered

SpecStreams == InitStreams /\ [][NextStreams]_vars

C30_NoEmptyPath ==
    (call = "listFiles" /\ ~ret.threw) =>
        \A i \in 1..Len(ret.value) : ret.value[i] # <<>>

(***************************************************************************)
(* init beside checkRepositoryExists                                       *)
(***************************************************************************)

\* A valid name that no directory of the repository root has yet.
NewRepoName == <<"n">>

\* The names init and checkRepositoryExists are called with.
InitNames == {NewRepoName, AbsentRepoName, RepoName, InvalidName}

\* init is still to be called for arg.repository, and checkRepositoryExists
\* for arg.checked; the directory of a repository that exists is complete.
InitInit ==
    /\ call = "none"
    /\ arg \in [repository : InitNames, checked : InitNames]
    /\ ret = Pending
    /\ DbEmpty
    /\ spawned = <<>>
    /\ gitProcess = "none"
    /\ iteration = [state |-> "none", yielded |-> 0, error |-> "none",
                    cause |-> [name |-> "none"]]
    /\ initialization = [pc |-> "idle",
                         directory |-> IF arg.repository \in Repositories
                                       THEN "configured" ELSE "absent",
                         error |-> "none"]

\* init rejects with the error; what it has made stays.
Rejected(error) == [initialization EXCEPT !.pc = "failed", !.error = error]

\* validateRepositoryName and await fs.mkdir(repo): mkdir fails with EEXIST
\* when the directory is there.
Mkdir ==
    /\ initialization.pc = "idle"
    /\ \E name \in {validateRepositoryName(arg.repository)} :
           initialization' =
               IF name.threw THEN Rejected(name.error)
               ELSE IF initialization.directory # "absent"
               THEN Rejected("EEXIST")
               ELSE [initialization EXCEPT !.pc = "mkdir",
                                           !.directory = "made"]
    /\ UNCHANGED <<fnVars, spawned, gitProcess, iteration>>
    /\ UNCHANGED dbVars

\* await exec('git', ['init', '--bare'], { cwd: repo })
InitBare ==
    /\ initialization.pc = "mkdir"
    /\ \E fate \in Fates :
       \E run \in {Exec(arg.repository, fate, Return(<<>>))} :
           initialization' =
               IF run.threw THEN Rejected(run.error)
               ELSE [initialization EXCEPT !.pc = "init",
                                           !.directory = "bare"]
    /\ spawned' = Append(spawned, Spawn("init", <<>>))
    /\ UNCHANGED <<fnVars, gitProcess, iteration>>
    /\ UNCHANGED dbVars

\* await exec('git', ['config', '--bool', 'http.receivepack', 'true'],
\* { cwd: repo }), after which init resolves.
ConfigReceivepack ==
    /\ initialization.pc = "init"
    /\ \E fate \in Fates :
       \E run \in {Exec(arg.repository, fate, Return(<<>>))} :
           initialization' =
               IF run.threw THEN Rejected(run.error)
               ELSE [initialization EXCEPT !.pc = "done",
                                           !.directory = "configured"]
    /\ spawned' = Append(spawned, Spawn("config", <<>>))
    /\ UNCHANGED <<fnVars, gitProcess, iteration>>
    /\ UNCHANGED dbVars

\* checkRepositoryExists is called wherever init stands.
CheckRepositoryExistsBesideInit ==
    /\ call' = "checkRepositoryExists"
    /\ ret' = checkRepositoryExists(arg.checked)
    /\ UNCHANGED arg
    /\ UNCHANGED dbVars
    /\ UNCHANGED procVars

NextInit ==
    \/ Mkdir
    \/ InitBare
    \/ ConfigReceivepack
    \/ CheckRepositoryExistsBesideInit

SpecInit == InitInit /\ [][NextInit]_vars

=============================================================================
